---- MODULE Spec2Model ----
(***************************************************************************)
(* coqide.vim: the Coq state machine (stm.py) driven through the coqtop    *)
(* handle (coqtophandle.py) by the commands of the Vim UI (vimui.py).      *)
(*                                                                         *)
(* Threads of one session:                                                 *)
(*   caller  the Vim main thread; runs the UI commands, which call         *)
(*           STM.init/forward/forward_many/backward/backward_before_mark   *)
(*           and STM.close; every one of them ends in schedule() calls.    *)
(*   worker  SequentialTaskThread.thread_main.                             *)
(*   reader  XMLInputThread.thread_main; it runs CoqtopHandle._on_receive  *)
(*           and _on_lost and, inside them, the on_res / on-lost callbacks *)
(*           of the STM.                                                   *)
(* The prover is the environment: it answers the requests in order with a  *)
(* good or a fail value, and may close its output at any time.  What it    *)
(* answers is decided when the reader reads the answer.                    *)
(*                                                                         *)
(* `x += 1` on an attribute is a read followed by a write in CPython, so   *)
(* every update of _scheduled_task_count is two steps.                     *)
(*                                                                         *)
(* stm.py calls the Sentence methods with the argument lists of the        *)
(* Sentence revision it was written against (unhighlight()); their effect  *)
(* on the highlight is taken from the bodies in sentence.py.               *)
(***************************************************************************)
EXTENDS Integers, Sequences, FiniteSets, TLC

(* ---------------------------- bounds ----------------------------------- *)

\* number of tasks the commands of a run schedule in all
MaxTasks == 6

\* number of sentences of the document in the buffer
DocLen == 2

\* the same two bounds for the runs in which coqtop answers every request
\* with a good value and the session is not closed
NoFaultTasks == 10
NoFaultDocLen == 3

\* number of highlights one Sentence object creates
MaxHighlights == 4

\* number of responses coqtop writes before it closes its output
MaxResponses == 3

\* the two bounds for the runs in which the user steps forward and coqtop
\* also sends feedbacks and elements that cannot be decoded, and the number
\* of messages below the level error it sends
ProverTasks == 5
ProverDocLen == 2
MaxMessages == 1

\* number of top-level elements coqtop writes to the chunked stream, and the
\* largest number of bytes one read1 call returns
MaxElements == 3
MaxChunk == 3
\* messages a session shows, and messages the tabpage holds
MaxViewMessages == 2
MaxTabpageMessages == 4
\* matches a view is given, and lines a match is moved down
MaxMatches == 2
MaxMoves == 1
\* tasks submitted to the background thread of the plugin
MaxSubmits == 4
\* sentences of the buffer Session.to_cursor scans
ScanDocLen == 4
\* lists, tuples and unions nested in the values given to the codec
CodecDepth == 1
\* characters fed to a sentence-end matcher
MaxChars == 5
\* matches Vim is asked to add for the highlights of a buffer
MaxVimMatches == 4

\* the sentence stops a document is cut from, in document order
AllStops == << <<1, 7>>, <<2, 4>>, <<2, 9>>, <<3, 5>>, <<4, 2>> >>

\* cursor positions the to-cursor command is tried with: before a stop, on a
\* stop and after the last stop
Cursors == { <<2, 1>>, <<2, 4>>, <<5, 1>> }

(* ------------------------ program constants ---------------------------- *)

\* queue.Queue(100) of SequentialTaskThread
QueueCap == 100

\* STM._next_edit_id starts at -1
FirstEditId == -1

\* Mark(1, 1), the stop reported for an empty history
RootMark == <<1, 1>>

\* None, for state ids and marks
NoId == 0
NoMark == <<0, 0>>
\* the goals of a view that was never given any: None
NoGoals == 0
\* the buffers of the two sessions, the goals and the messages coqtop gives
Bufnrs == {1, 2}
GoalValues == {1, 2}
MessageValues == {1, 2}
\* the positions the cursor of Vim is tried at
CursorMarks == {<<l, c>> : l \in 1..5, c \in {1, 4, 5, 7, 9}}
\* before Session.to_cursor is called
NoCall == [len |-> 0, tip |-> NoMark, cursor |-> NoMark,
           submitted |-> "nothing", arg |-> <<>>]
\* a Python value: its type, its text or number, its items
PyValue(t, text, num, items) ==
    [t |-> t, text |-> text, num |-> num, items |-> items]
PyNone == PyValue("NoneType", "", 0, <<>>)
\* an XML element: tag, attribute val, text, children
Xml(tag, val, text, child) ==
    [tag |-> tag, val |-> val, text |-> text, child |-> child]
NoXml == Xml("", "", "", <<>>)
\* the highlights (bufnr, start, stop, token) of two regions: a sentence
\* made anew over a region starts again at token 0
Hlids == {1, 2}
\* the windows of Vim that may show the buffer, and the ids of its matches
Winids == {1, 2}
MatchIds == 1..MaxMatches
\* a window the view is not active in has no _TaskExecutor
NoExecutor == [active |-> FALSE, task_list |-> <<>>,
               task_map |-> [m \in MatchIds |-> 0]]

\* the state id the prover returns for Init, and the first one for Add
ProverInitId == 1

(* ----------------------------- helpers --------------------------------- *)

\* stop.line > mark.line or (stop.line == mark.line and stop.col > mark.col)
MarkAfter(stop, mark) ==
    \/ stop[1] > mark[1]
    \/ (stop[1] = mark[1] /\ stop[2] > mark[2])

Range(s) == { s[i] : i \in 1..Len(s) }

SeqTake(s, n) == [ i \in 1..n |-> s[i] ]

\* the sentinel (None, None) of shutdown_join
Sentinel == [id |-> 0, kind |-> "None", cmd |-> 0, pos |-> 0, arg |-> NoMark]

Template(kind, cmd, pos, arg) ==
    [kind |-> kind, cmd |-> cmd, pos |-> pos, arg |-> arg]

VARIABLES
    \* SequentialTaskThread
    closing,          \* _closing
    count,            \* _scheduled_task_count
    schedule_queue,   \* schedule_queue
    task_done,        \* the semaphore task_done
    wpc, wtask, wtmp, \* thread_main: position, current task, value read by -=
    \* STM
    next_edit_id, sentences, state_id_map, failed_sentence, init_state_id,
    highlights,       \* the regions the UI shows highlighted: <<stop, state id>>
    \* CoqtopHandle and the pipes of the process
    cb_res_queue,     \* _cb_res_queue: the (cb_res, cb_lost) pairs
    out_queue,        \* requests sent and not yet answered by the prover
    proc,             \* "running", "closed" (poll() falsy), "failed" (poll() truthy)
    prover_next_id,   \* next fresh state id of the prover
    \* XMLInputThread.thread_main
    rpc, rcont, rtmp,
    \* the caller
    cpc, ctodo, ctmp, ncmds, next_task,
    doc,              \* the sentence stops of the document in the buffer
    task_limit,       \* number of tasks the commands of the run may schedule
    \* history of the run
    started,          \* ids of the tasks in the order thread_main started them
    done_calls,       \* how often done() was invoked on behalf of each task
    sent,             \* the requests handed to call_async, in order
    failed_adds,      \* <<cmd, pos>> of the Add requests answered with fail
    conn_lost,        \* number of ui_cmds.connection_lost() calls
    eof_busy,         \* the reader saw EOF while a task was queued or running
    lost_cb_done,     \* an on-lost callback has returned
    pre_discard,      \* tasks queued when the running discard was called
    cancelled,        \* tasks that were queued when a returned discard was called
    discard_runners,  \* tasks whose callback called discard and has returned
    misdelivered,     \* a value was given to the callback of another request
    close_pending,    \* tasks queued when shutdown_join was called
    add_next_id,      \* next_state_id of the last good Add response, or NoId
    shown,            \* show_message(message, False) calls of the feedbacks
    handler_map,      \* FeedbackHandler._state_id_map once the STM has bound
                      \* its own _state_id_map to another dict
    \* one Sentence object and the highlight actions it has handed to the UI
    snt,              \* _flag, _hlid (0 for None) and _hlcount
    hl_group,         \* hlgroup of the HlRegion action of each highlight
    hl_released,      \* number of UnhlRegion actions of each highlight
    axiom_kept,       \* set_axiom was called and only feedbacks came since
    \* one _CoqtopReader, its thread and the thread that calls it
    cr_closed,        \* _closed
    cr_queue,         \* _res_queue; 0 stands for None
    cr_pc,            \* _thread_entry: "read", "put_none", "done"
    cr_written,       \* responses coqtop has written
    cg_pc,            \* the calling thread: "idle", "get", "check", "nowait"
    cg_res,           \* res of the get_response call under way
    cg_returned,      \* what the last get_response call did
    \* the output of coqtop as bytes, and the two loops that cut it in chunks
    xml_stream,       \* the bytes coqtop has written
    chunk_reader,     \* of each loop: bytes read and held, elements emitted
    \* the views of two buffers that share one tabpage (views.py)
    session_view,     \* of each SessionView: _focused, _goals, _messages
    tabpage_view,     \* the TabpageView: _goals, _messages, the changed flags
    last_focused,     \* Plugin._last_focused_bufnr; 0 stands for None
    \* one _MatchView, its matches and the windows of Vim (views.py)
    match_map,        \* _match_map: the ids of the matches of the view
    match_arg,        \* of each _Match made so far: the line of match_arg
    next_match_id,    \* the id the next add() is called with
    win_executors,    \* of each window: active, _task_list, _task_map
    win_matches,      \* of each window: the matches Vim displays in it
    drawn,            \* draw() ran after the last add, move and remove
    \* one _ThreadExecutor and its background thread (plugin.py)
    te_task_count,    \* _task_count
    te_task_queue,    \* _task_queue: tasks that return and tasks that raise
    te_pc,            \* _thread_main: "get", "run", "dec", "dead"
    te_task,          \* the task _thread_main took from the queue
    te_submitted,     \* calls of submit()
    te_finished,      \* tasks whose function has returned or raised
    \* one call of Session.to_cursor (session.py)
    to_cursor_call,   \* the buffer, the tip, the cursor and what was submitted
    \* one value sent through the codec of xmlprotocol.py
    codec_call,       \* the value, its XML element and the value decoded
    \* one _SentenceEndMatcher and the characters fed to it (vimsupport.py)
    matcher,          \* _state, _nesting_level, _start_sentence
    matcher_chars,    \* _chars
    \* the _ActionHandler of VimUI and the matches of Vim (vimui.py)
    hl_ops,           \* _hl_ops: the highlights that wait for update_ui
    other_ops,        \* _other_ops: the unhighlights that wait for update_ui
    hl_match_ids,     \* _hl_match_ids: of each highlight its match, or 0
    vim_matches,      \* the matches Vim displays
    vim_next_match,   \* the id matchaddpos returns next
    hl_requested,     \* the highlights requested and not unhighlighted since
    ui_updated        \* update_ui ran after the last action

taskVars == <<closing, count, schedule_queue, task_done>>
workerVars == <<wpc, wtask, wtmp>>
stmVars == <<next_edit_id, sentences, state_id_map, failed_sentence,
            init_state_id, highlights>>
handleVars == <<cb_res_queue, out_queue>>
proverVars == <<proc, prover_next_id>>
readerVars == <<rpc, rcont, rtmp>>
sentenceVars == <<snt, hl_group, hl_released, axiom_kept>>
coqtopReaderVars == <<cr_closed, cr_queue, cr_pc, cr_written, cg_pc, cg_res,
                      cg_returned>>
chunkVars == <<xml_stream, chunk_reader>>
viewVars == <<session_view, tabpage_view, last_focused>>
matchVars == <<match_map, match_arg, next_match_id, win_executors,
               win_matches, drawn>>
executorVars == <<te_task_count, te_task_queue, te_pc, te_task, te_submitted,
                  te_finished>>
toCursorVars == <<to_cursor_call>>
codecVars == <<codec_call>>
matcherVars == <<matcher, matcher_chars>>
actionVars == <<hl_ops, other_ops, hl_match_ids, vim_matches, vim_next_match,
                hl_requested, ui_updated>>
\* the parts of the later revision: views, executors, matchers, codec
uiVars == <<viewVars, matchVars, executorVars, toCursorVars, codecVars,
            matcherVars, actionVars>>
\* all of these parts but one
besidesViews == <<matchVars, executorVars, toCursorVars, codecVars,
                  matcherVars, actionVars>>
besidesMatches == <<viewVars, executorVars, toCursorVars, codecVars,
                    matcherVars, actionVars>>
besidesExecutor == <<viewVars, matchVars, toCursorVars, codecVars, matcherVars,
                     actionVars>>
besidesToCursor == <<viewVars, matchVars, executorVars, codecVars, matcherVars,
                     actionVars>>
besidesCodec == <<viewVars, matchVars, executorVars, toCursorVars, matcherVars,
                  actionVars>>
besidesMatcher == <<viewVars, matchVars, executorVars, toCursorVars, codecVars,
                    actionVars>>
besidesActions == <<viewVars, matchVars, executorVars, toCursorVars, codecVars,
                    matcherVars>>
\* the parts that a session of the UI does not touch
unitVars == <<sentenceVars, coqtopReaderVars, chunkVars, uiVars>>
\* what coqtop said beyond good and fail, and what the UI was told of it
answerVars == <<add_next_id, shown, handler_map>>
callerVars == <<cpc, ctodo, ctmp, ncmds, next_task, doc, task_limit, unitVars,
                answerVars>>
histVars == <<started, done_calls, sent, failed_adds, conn_lost, eof_busy,
              lost_cb_done, pre_discard, cancelled,
              discard_runners, misdelivered, close_pending>>

vars == <<taskVars, workerVars, stmVars, handleVars, proverVars, readerVars,
          callerVars, histVars>>

\* the dict of the FeedbackHandler is the _state_id_map of the STM
SharedMap == [detached |-> FALSE, sentences |-> <<>>]

NoCont == [kind |-> "none", task |-> 0, stop |-> NoMark]
NoSentence == [stop |-> NoMark, state_id |-> NoId, flag |-> "None", hl |-> FALSE]

\* the state after VimUI.new_session has built STM, SequentialTaskThread and
\* CoqtopHandle, for a buffer of `len` sentences
Start(len, limit) ==
    /\ doc = SeqTake(AllStops, len)
    /\ task_limit = limit
    /\ closing = FALSE
    /\ count = 0
    /\ schedule_queue = <<>>
    /\ task_done = 0
    /\ wpc = "get" /\ wtask = Sentinel /\ wtmp = 0
    /\ next_edit_id = FirstEditId
    /\ sentences = <<>>
    /\ state_id_map = {}
    /\ failed_sentence = NoSentence
    /\ init_state_id = NoId
    /\ highlights = {}
    /\ cb_res_queue = <<>>
    /\ out_queue = <<>>
    /\ proc = "running"
    /\ prover_next_id = ProverInitId
    /\ rpc = "read" /\ rcont = NoCont /\ rtmp = 0
    /\ cpc = "new" /\ ctodo = <<>> /\ ctmp = 0 /\ ncmds = 0 /\ next_task = 1
    /\ started = <<>>
    /\ done_calls = [t \in 1..limit |-> 0]
    /\ sent = <<>>
    /\ failed_adds = {}
    /\ conn_lost = 0
    /\ eof_busy = FALSE
    /\ lost_cb_done = FALSE
    /\ pre_discard = {}
    /\ cancelled = {}
    /\ discard_runners = {}
    /\ misdelivered = FALSE
    /\ close_pending = {}
    /\ add_next_id = NoId
    /\ shown = 0
    /\ handler_map = SharedMap
    /\ snt = [flag |-> "None", hlid |-> 0, hlcount |-> 0]
    /\ hl_group = [i \in 1..MaxHighlights |-> "None"]
    /\ hl_released = [i \in 1..MaxHighlights |-> 0]
    /\ axiom_kept = FALSE
    /\ cr_closed = FALSE
    /\ cr_queue = <<>>
    /\ cr_pc = "read"
    /\ cr_written = 0
    /\ cg_pc = "idle"
    /\ cg_res = 0
    /\ cg_returned = "nothing"
    /\ xml_stream = <<>>
    /\ chunk_reader = [r \in {"XMLInputThread", "_CoqtopReader"} |->
                          [pos |-> 0, held |-> 0, emitted |-> <<>>,
                           pc |-> "read"]]
    /\ session_view = [v \in Bufnrs |->
                          [focused |-> FALSE, goals |-> NoGoals,
                           messages |-> <<>>]]
    /\ tabpage_view = [goals |-> NoGoals, messages |-> <<>>,
                       goals_changed |-> FALSE, messages_changed |-> FALSE]
    /\ last_focused = 0
    /\ match_map = {}
    /\ match_arg = [m \in MatchIds |-> 0]
    /\ next_match_id = 1
    /\ win_executors = [w \in Winids |-> NoExecutor]
    /\ win_matches = [w \in Winids |-> {}]
    /\ drawn = TRUE
    /\ te_task_count = 0
    /\ te_task_queue = <<>>
    /\ te_pc = "get"
    /\ te_task = "none"
    /\ te_submitted = 0
    /\ te_finished = 0
    /\ to_cursor_call = NoCall
    /\ codec_call = [called |-> FALSE, value |-> PyNone, xml |-> NoXml,
                     decoded |-> PyNone]
    /\ matcher = [state |-> "LEADING_SPACE", nesting_level |-> 0,
                  start_sentence |-> FALSE]
    /\ matcher_chars = <<>>
    /\ hl_ops = {}
    /\ other_ops = <<>>
    /\ hl_match_ids = [h \in Hlids |-> 0]
    /\ vim_matches = {}
    /\ vim_next_match = 1
    /\ hl_requested = {}
    /\ ui_updated = TRUE

Init == Start(DocLen, MaxTasks)

InitNoFault == Start(NoFaultDocLen, NoFaultTasks)

InitProver == Start(ProverDocLen, ProverTasks)

(* ------------------------------ Sentence ------------------------------- *)

\* Sentence.unhighlight: releases the highlight, if any, and resets the flag
Unhighlight(s) ==
    IF s.hl THEN [s EXCEPT !.hl = FALSE, !.flag = "None"] ELSE s

\* Sentence._highlight: release the old highlight, take a new one
Highlight(s) == [Unhighlight(s) EXCEPT !.hl = TRUE]

\* Sentence.set_processing
SetProcessing(s) ==
    IF s.flag = "CoqStcProcessing" THEN s
    ELSE [Highlight(s) EXCEPT !.flag = "CoqStcProcessing"]

\* Sentence.set_error with no sub-location: the whole sentence is highlighted
SetErrorKeepsFlag(s) == Highlight(Unhighlight(s))

SetError(s) == [Highlight(Unhighlight(s)) EXCEPT !.flag = "CoqStcError"]

\* Sentence.set_processed
SetProcessed(s) ==
    IF s.flag \in {"CoqStcAxiom", "CoqStcProcessed", "CoqStcError"} THEN s
    ELSE [Highlight(s) EXCEPT !.flag = "CoqStcProcessed"]

\* Sentence.set_axiom
SetAxiom(s) == [Highlight(s) EXCEPT !.flag = "CoqStcAxiom"]

\* Sentence.set_error with the location of a feedback: for a location that
\* OffsetToMark cuts to nothing ("cut") _highlight_sub takes no highlight
SetErrorAt(s, location) ==
    IF location = "cut" THEN [Unhighlight(s) EXCEPT !.flag = "CoqStcError"]
    ELSE SetError(s)

\* Sentence(sregion, state_id)
NewSentence(stop, state_id) ==
    [stop |-> stop, state_id |-> state_id, flag |-> "None", hl |-> FALSE]

(* -------------------------------- STM ---------------------------------- *)

\* Python's seq[i], negative indices included
PyIndexOk(s, i) == (i >= 0 - Len(s)) /\ (i <= Len(s) - 1)

PyAt(s, i) == IF i >= 0 THEN s[i + 1] ELSE s[Len(s) + i + 1]

\* STM.get_last_stop
GetLastStop(sents) ==
    IF sents # <<>> THEN sents[Len(sents)].stop ELSE RootMark

\* STM._tip_state_id
TipStateIdFirst(sents, init_id) ==
    IF sents # <<>> THEN sents[1].state_id ELSE init_id

TipStateId(sents, init_id) ==
    IF sents # <<>> THEN sents[Len(sents)].state_id ELSE init_id

\* STM.is_busy
IsBusy(n) == n > 0

\* STM._alloc_edit_id: the value returned and the new _next_edit_id
AllocEditIdKept(id) == [value |-> id, next |-> id]

AllocEditId(id) == [value |-> id, next |-> id - 1]

\* the loop of STM.backward_before_mark: the 0-based index of the first
\* sentence that stops after the mark, or -1 when the loop runs to its else
FirstAfter(sents, mark) ==
    LET hits == { i \in 1..Len(sents) : MarkAfter(sents[i].stop, mark) }
    IN  IF hits = {} THEN 0 - 1
        ELSE (CHOOSE i \in hits : \A j \in hits : i <= j) - 1

\* the state id _backward_before_index asks Edit_at for
RewindStateId(sents, init_id, index) ==
    IF index = 0 THEN init_id ELSE PyAt(sents, index - 1).state_id

\* del self._sentences[index:] for index >= 0
Truncate(sents, index) == SeqTake(sents, index)

\* a request as handed to call_async; stop stands for sregion.command, the
\* text of the sentence that ends there (NoMark for the other requests)
Request(kind, t, state_id, edit_id) ==
    [kind |-> kind, task |-> t.id, cmd |-> t.cmd, pos |-> t.pos,
     stop |-> IF kind = "Add" THEN t.arg ELSE NoMark,
     state_id |-> state_id, edit_id |-> edit_id]

Callbacks(t, index) ==
    [task |-> t.id, kind |-> t.kind, cmd |-> t.cmd, pos |-> t.pos,
     stop |-> t.arg, index |-> index]

\* the highlight a sentence owns, as the UI identifies it
HlId(s) == <<s.stop, s.state_id>>


\* STM._clear_failed_sentence
ClearFailedSentence ==
    /\ failed_sentence' = NoSentence
    /\ highlights' = IF failed_sentence.hl
                     THEN highlights \ {HlId(failed_sentence)}
                     ELSE highlights

\* the done callback of SequentialTaskThread, called on behalf of task id
Done(id) ==
    /\ task_done' = task_done + 1
    /\ done_calls' = [done_calls EXCEPT ![id] = @ + 1]

\* CoqtopHandle.call_async called by the worker for its task
PollTruthy(p) == p = "failed"

CallAsync(req, cb) ==
    IF PollTruthy(proc)
    THEN /\ wpc' = "dead"
         /\ UNCHANGED <<cb_res_queue, out_queue, sent>>
    ELSE /\ wpc' = "acquire"
         /\ cb_res_queue' = Append(cb_res_queue, cb)
         /\ out_queue' = Append(out_queue, req)
         /\ sent' = Append(sent, req)

(* ----------------------- SequentialTaskThread -------------------------- *)

\* the tasks waiting in the queue (the sentinel is not one)
QueuedIds(q) == { q[i].id : i \in 1..Len(q) } \ {0}

\* queue.put appends at the tail
EnqueueAtHead(q, item) == <<item>> \o q

Enqueue(q, item) == Append(q, item)

\* get_nowait raises queue.Empty, which ends the loop of discard_scheduled_tasks
QueueEmptyOrOne(q) == Len(q) <= 1

QueueEmpty(q) == q = <<>>

\* task is None or self._closing
StopsWorker(t, cl) == t.kind = "None" \/ cl

\* thread_main: schedule_queue.get() returns the sentinel, or anything once
\* _closing is set: the loop is left
WQuit ==
    /\ wpc = "get"
    /\ schedule_queue # <<>>
    /\ StopsWorker(Head(schedule_queue), closing)
    /\ schedule_queue' = Tail(schedule_queue)
    /\ wpc' = "quit"
    /\ UNCHANGED <<closing, count, task_done, wtask, wtmp, stmVars, handleVars,
                   proverVars, readerVars, callerVars, histVars>>

\* thread_main: schedule_queue.get() returns a task of the given kind, which
\* is started with task(done)
WTake(kind) ==
    /\ wpc = "get"
    /\ schedule_queue # <<>>
    /\ ~StopsWorker(Head(schedule_queue), closing)
    /\ Head(schedule_queue).kind = kind
    /\ schedule_queue' = Tail(schedule_queue)
    /\ wtask' = Head(schedule_queue)
    /\ started' = Append(started, Head(schedule_queue).id)

histButStartedSent ==
    <<done_calls, failed_adds, conn_lost, eof_busy, lost_cb_done,
      pre_discard, cancelled, discard_runners, misdelivered,
      close_pending>>

\* task(done) of STM.init
WRunInit ==
    /\ WTake("init")
    /\ CallAsync(Request("Init", wtask', NoId, 0), Callbacks(wtask', 0))
    /\ UNCHANGED <<closing, count, task_done, wtmp, stmVars, proverVars,
                   readerVars, callerVars, histButStartedSent>>

\* task(done) of STM._forward_one
WRunForwardOne ==
    /\ WTake("forward_one")
    /\ ClearFailedSentence
    /\ next_edit_id' = AllocEditId(next_edit_id).next
    /\ CallAsync(Request("Add", wtask', TipStateId(sentences, init_state_id),
                         AllocEditId(next_edit_id).value),
                 Callbacks(wtask', 0))
    /\ UNCHANGED <<closing, count, task_done, wtmp, sentences, state_id_map,
                   init_state_id, proverVars, readerVars, callerVars,
                   histButStartedSent>>

\* STM._backward_before_index, the part that runs in the worker
BackwardBeforeIndex(index) ==
    IF index # 0 /\ ~PyIndexOk(sentences, index - 1)
    THEN \* IndexError leaves thread_main
         /\ wpc' = "dead"
         /\ UNCHANGED <<failed_sentence, highlights, cb_res_queue, out_queue,
                        sent>>
    ELSE /\ ClearFailedSentence
         /\ CallAsync(Request("Edit_at", wtask',
                              RewindStateId(sentences, init_state_id, index), 0),
                      Callbacks(wtask', index))

\* task(done) of STM.backward
WRunBackward ==
    /\ WTake("backward")
    /\ BackwardBeforeIndex(Len(sentences) - 1)
    /\ UNCHANGED <<closing, count, task_done, wtmp, next_edit_id, sentences,
                   state_id_map, init_state_id, proverVars, readerVars,
                   callerVars, histButStartedSent>>

\* task(done) of STM.backward_before_mark
WRunBackwardBeforeMark ==
    /\ WTake("backward_before_mark")
    /\ LET i == FirstAfter(sentences, wtask'.arg) IN
       IF i >= 0
       THEN /\ BackwardBeforeIndex(i)
            /\ UNCHANGED <<task_done, done_calls>>
       ELSE /\ Done(wtask'.id)
            /\ wpc' = "acquire"
            /\ UNCHANGED <<failed_sentence, highlights, cb_res_queue,
                           out_queue, sent>>
    /\ UNCHANGED <<closing, count, wtmp, next_edit_id, sentences, state_id_map,
                   init_state_id, proverVars, readerVars, callerVars,
                   failed_adds, conn_lost, eof_busy, lost_cb_done,
                   pre_discard, cancelled, discard_runners,
                   misdelivered, close_pending>>

\* task(done) of STM._update_goal
WRunGetGoals ==
    /\ WTake("get_goals")
    /\ CallAsync(Request("Goal", wtask', NoId, 0), Callbacks(wtask', 0))
    /\ UNCHANGED <<closing, count, task_done, wtmp, stmVars, proverVars,
                   readerVars, callerVars, histButStartedSent>>

\* task_done.acquire() succeeds only on a released semaphore
CanAcquireAlways(sem) == TRUE

CanAcquire(sem) == sem > 0

\* thread_main: task_done.acquire() and the read of `-= 1`
WAcquire ==
    /\ wpc = "acquire"
    /\ CanAcquire(task_done)
    /\ task_done' = task_done - 1
    /\ wtmp' = count
    /\ wpc' = "dec"
    /\ UNCHANGED <<closing, count, schedule_queue, wtask, stmVars, handleVars,
                   proverVars, readerVars, callerVars, histVars>>

\* thread_main: the write of `self._scheduled_task_count -= 1`
WDec ==
    /\ wpc = "dec"
    /\ count' = wtmp - 1
    /\ wpc' = "get"
    /\ UNCHANGED <<closing, schedule_queue, task_done, wtask, wtmp, stmVars,
                   handleVars, proverVars, readerVars, callerVars, histVars>>



(* ------------------------ the reader thread ---------------------------- *)

\* a task has been taken from the queue and has not signalled done
TaskRunning == wpc = "acquire" /\ done_calls[wtask.id] = 0

\* coqtop answers the oldest unanswered request with a <value>, which
\* XMLInputThread hands to CoqtopHandle._on_receive: the first pair of
\* _cb_res_queue is taken and its cb_res is called
ValueArrives(kinds) ==
    /\ rpc = "read"
    /\ proc = "running"
    /\ out_queue # <<>>
    /\ cb_res_queue # <<>>
    /\ Head(cb_res_queue).kind \in kinds
    /\ out_queue' = Tail(out_queue)
    /\ cb_res_queue' = Tail(cb_res_queue)
    /\ misdelivered' = (misdelivered
                        \/ Head(cb_res_queue).task # Head(out_queue).task)

histButDone ==
    <<started, sent, failed_adds, conn_lost, eof_busy, lost_cb_done,
      pre_discard, cancelled, discard_runners, close_pending>>

\* on_res of STM.init
RecvInitRes ==
    /\ ValueArrives({"init"})
    /\ Done(Head(cb_res_queue).task)
    /\ \E ok \in BOOLEAN :
         IF ok
         THEN /\ init_state_id' = prover_next_id
              /\ prover_next_id' = prover_next_id + 1
              /\ UNCHANGED rpc
         ELSE \* RuntimeError leaves thread_main
              /\ rpc' = "dead"
              /\ UNCHANGED <<init_state_id, prover_next_id>>
    /\ UNCHANGED <<closing, count, schedule_queue, workerVars, next_edit_id,
                   sentences, state_id_map, failed_sentence, highlights,
                   proc, rcont, rtmp, callerVars, histButDone>>

\* on_res of STM._forward_one, the branch `not res.error`
AddSucceedsAtFront(cb, state_id) ==
    LET sentence == SetProcessing(NewSentence(cb.stop, state_id)) IN
    /\ sentences' = <<sentence>> \o sentences
    /\ state_id_map' = state_id_map \cup {state_id}
    /\ highlights' = highlights \cup {HlId(sentence)}

AddSucceeds(cb, state_id) ==
    LET sentence == SetProcessing(NewSentence(cb.stop, state_id)) IN
    /\ sentences' = Append(sentences, sentence)
    /\ state_id_map' = state_id_map \cup {state_id}
    /\ highlights' = highlights \cup {HlId(sentence)}

\* on_res of STM._forward_one; AddRes.from_xml reads next_state_id, the tip the
\* prover has moved to when the Add closed a focused proof (NoId when it did
\* not), from the response, and `nexts` are the values coqtop may give it
RecvAddResWith(nexts) ==
    /\ ValueArrives({"forward_one"})
    /\ LET cb == Head(cb_res_queue) IN
       \E ok \in BOOLEAN :
         IF ok
         THEN /\ AddSucceeds(cb, prover_next_id)
              /\ prover_next_id' = prover_next_id + 1
              /\ \E next_state_id \in nexts : add_next_id' = next_state_id
              /\ Done(cb.task)
              /\ UNCHANGED <<readerVars, failed_adds, pre_discard>>
         ELSE \* discard_scheduled_tasks() is entered
              /\ rpc' = "discard"
              /\ rcont' = [kind |-> "addfail", task |-> cb.task,
                           stop |-> cb.stop]
              /\ failed_adds' = failed_adds \cup {<<cb.cmd, cb.pos>>}
              /\ pre_discard' = QueuedIds(schedule_queue)
              /\ UNCHANGED <<task_done, done_calls, sentences, state_id_map,
                             highlights, rtmp, prover_next_id, add_next_id>>
    /\ UNCHANGED <<closing, count, schedule_queue, workerVars, next_edit_id,
                   failed_sentence, init_state_id, proc,
                   cpc, ctodo, ctmp, ncmds, next_task, doc, task_limit,
                   unitVars, shown, handler_map, started, sent, conn_lost,
                   eof_busy, lost_cb_done, cancelled,
                   discard_runners, close_pending>>

\* the Add responses of a prover that closes no focused proof
RecvAddRes == RecvAddResWith({NoId})

\* on_res of STM._backward_before_index, the branch `not res.error`
RewindKeepsMap(index) ==
    LET removed == { sentences[i] : i \in (index + 1)..Len(sentences) } IN
    /\ highlights' = highlights \ { HlId(s) : s \in { r \in removed : r.hl } }
    /\ state_id_map' = state_id_map
    /\ sentences' = Truncate(sentences, index)

RewindSucceeds(index) ==
    LET removed == { sentences[i] : i \in (index + 1)..Len(sentences) } IN
    /\ highlights' = highlights \ { HlId(s) : s \in { r \in removed : r.hl } }
    /\ state_id_map' = state_id_map \ { s.state_id : s \in removed }
    /\ sentences' = Truncate(sentences, index)

\* on_res of STM._backward_before_index
RecvEditAtRes ==
    /\ ValueArrives({"backward", "backward_before_mark"})
    /\ Done(Head(cb_res_queue).task)
    /\ \E ok \in BOOLEAN :
         IF ok
         THEN /\ RewindSucceeds(Head(cb_res_queue).index)
              /\ UNCHANGED rpc
         ELSE \* RuntimeError('Edit_at should not fail') leaves thread_main
              /\ rpc' = "dead"
              /\ UNCHANGED <<sentences, state_id_map, highlights>>
    /\ UNCHANGED <<closing, count, schedule_queue, workerVars, next_edit_id,
                   failed_sentence, init_state_id, proc,
                   prover_next_id, rcont, rtmp, callerVars, started, sent,
                   failed_adds, conn_lost, eof_busy, lost_cb_done,
                   pre_discard, cancelled, discard_runners,
                   close_pending>>

\* on_res of STM._update_goal: show_goal or show_message, then done
RecvGoalRes ==
    /\ ValueArrives({"get_goals"})
    /\ Done(Head(cb_res_queue).task)
    /\ UNCHANGED <<closing, count, schedule_queue, workerVars, stmVars,
                   proverVars, readerVars, callerVars, histButDone>>

\* CoqtopHandle._on_lost: the next pair of the queue, or the end of the loop
Detach(held, sents) ==
    IF held.detached THEN held
    ELSE [detached |-> TRUE,
          sentences |-> [i \in 1..Len(sents) |-> Unhighlight(sents[i])]]

OnLostNext(q) ==
    IF q = <<>>
    THEN /\ rpc' = "quit"
         /\ rcont' = NoCont
         /\ cb_res_queue' = q
         /\ pre_discard' = {}
    ELSE /\ rpc' = "discard"
         /\ rcont' = [kind |-> "lost", task |-> Head(q).task, stop |-> NoMark]
         /\ cb_res_queue' = Tail(q)
         /\ pre_discard' = QueuedIds(schedule_queue)

\* coqtop closes its output: poll() is falsy (still running, or exit code 0)
\* or truthy (another exit code) from then on; XMLInputThread reads b'' and
\* calls cb_end, which is CoqtopHandle._on_lost
RecvEof ==
    /\ rpc = "read"
    /\ proc = "running"
    /\ \E p \in {"closed", "failed"} : proc' = p
    /\ eof_busy' = (schedule_queue # <<>> \/ TaskRunning)
    /\ OnLostNext(cb_res_queue)
    /\ UNCHANGED <<taskVars, workerVars, stmVars, out_queue,
                   prover_next_id, rtmp, callerVars, started, done_calls, sent,
                   failed_adds, conn_lost, lost_cb_done, cancelled,
                   discard_runners, misdelivered, close_pending>>

\* discard_scheduled_tasks: get_nowait() and the read of `-= 1`
RDiscardGet ==
    /\ rpc = "discard"
    /\ ~QueueEmpty(schedule_queue)
    /\ schedule_queue' = Tail(schedule_queue)
    /\ rtmp' = count
    /\ rpc' = "discard_dec"
    /\ UNCHANGED <<closing, count, task_done, workerVars, stmVars, handleVars,
                   proverVars, rcont, callerVars, histVars>>

\* discard_scheduled_tasks: the write of `self._scheduled_task_count -= 1`
RDiscardDec ==
    /\ rpc = "discard_dec"
    /\ count' = rtmp - 1
    /\ rpc' = "discard"
    /\ UNCHANGED <<closing, schedule_queue, task_done, workerVars, stmVars,
                   handleVars, proverVars, rcont, rtmp, callerVars, histVars>>

\* on_res of STM._forward_one, the error branch after the discard: queue.Empty
\* ends the loop, the failed sentence is kept and highlighted, done is called
RAddFailed ==
    /\ rpc = "discard"
    /\ rcont.kind = "addfail"
    /\ QueueEmpty(schedule_queue)
    /\ failed_sentence' = SetError(NewSentence(rcont.stop, 0))
    /\ highlights' = highlights \cup {<<rcont.stop, 0>>}
    /\ Done(rcont.task)
    /\ cancelled' = cancelled \cup pre_discard
    /\ discard_runners' = discard_runners \cup {rcont.task}
    /\ pre_discard' = {}
    /\ rpc' = "read"
    /\ rcont' = NoCont
    /\ UNCHANGED <<closing, count, schedule_queue, workerVars, next_edit_id,
                   sentences, state_id_map, init_state_id, handleVars,
                   proverVars, rtmp, callerVars, started, sent, failed_adds,
                   conn_lost, eof_busy, lost_cb_done, misdelivered,
                   close_pending>>

\* the callback of STM._make_on_lost_cb after the discard, and the return to
\* the loop of CoqtopHandle._on_lost
RConnectionLost ==
    /\ rpc = "discard"
    /\ rcont.kind = "lost"
    /\ QueueEmpty(schedule_queue)
    /\ highlights' = highlights \
                     { HlId(s) : s \in { r \in Range(sentences) : r.hl } }
    /\ sentences' = <<>>
    /\ state_id_map' = {}
    /\ handler_map' = Detach(handler_map, sentences)
    /\ conn_lost' = conn_lost + 1
    /\ Done(rcont.task)
    /\ cancelled' = cancelled \cup pre_discard
    /\ discard_runners' = discard_runners \cup {rcont.task}
    /\ lost_cb_done' = TRUE
    /\ OnLostNext(cb_res_queue)
    /\ UNCHANGED <<closing, count, schedule_queue, workerVars, next_edit_id,
                   failed_sentence, init_state_id, out_queue, proverVars, rtmp,
                   cpc, ctodo, ctmp, ncmds, next_task, doc, task_limit,
                   unitVars, add_next_id, shown, started, sent, failed_adds,
                   eof_busy, misdelivered, close_pending>>

(* ------------------- feedbacks and broken elements --------------------- *)

\* the contents FeedbackHandler tells apart: xp.ErrorMsg, xp.Message with
\* its level, xp.Processed, xp.AddedAxiom, and every other content
FeedbackContents ==
    { [type |-> "errormsg", level |-> "none"],
      [type |-> "message", level |-> "error"],
      [type |-> "message", level |-> "warning"],
      [type |-> "message", level |-> "notice"],
      [type |-> "processed", level |-> "none"],
      [type |-> "addedaxiom", level |-> "none"],
      [type |-> "other", level |-> "none"] }

\* self._state_id_map.get(feedback.state_id, None): the index of the
\* sentence in the history, 0 for None
SentenceOf(state_id) ==
    IF state_id \in state_id_map
       /\ \E i \in 1..Len(sentences) : sentences[i].state_id = state_id
    THEN CHOOSE i \in 1..Len(sentences) : sentences[i].state_id = state_id
    ELSE 0

\* self._state_id_map.get(feedback.state_id, None) in the dict the handler
\* was made with, after the STM has left that dict
HeldSentenceOf(state_id) ==
    LET held == handler_map.sentences
        hits == {k \in 1..Len(held) : held[k].state_id = state_id}
    IN  IF hits = {} THEN 0 ELSE CHOOSE k \in hits : TRUE

\* what the handler of FeedbackHandler._FEEDBACK_HANDLERS does to the
\* sentence it was given
FeedbackOnAnyLevel(s, content, location) ==
    IF content.type \in {"errormsg", "message"} THEN SetErrorAt(s, location)
    ELSE IF content.type = "processed" THEN SetProcessed(s)
    ELSE IF content.type = "addedaxiom" THEN SetAxiom(s)
    ELSE s

FeedbackOn(s, content, location) ==
    IF content.type = "errormsg" THEN SetErrorAt(s, location)
    ELSE IF content.type = "message" /\ content.level = "error"
    THEN SetErrorAt(s, location)
    ELSE IF content.type = "processed" THEN SetProcessed(s)
    ELSE IF content.type = "addedaxiom" THEN SetAxiom(s)
    ELSE s

\* _on_message: show_message(message.message, False)
ShownOnly(content) == content.type = "message" /\ content.level # "error"

\* CoqtopHandle._on_receive for a <feedback>: the FeedbackHandler is called
\* with Feedback(state_id, content)
OnFeedback(state_id, content, location) ==
    LET i == SentenceOf(state_id)
        k == HeldSentenceOf(state_id) IN
    /\ rpc = "read"
    /\ proc = "running"
    /\ IF ShownOnly(content)
       THEN shown < MaxMessages /\ shown' = shown + 1
       ELSE shown' = shown
    /\ IF handler_map.detached
       THEN /\ sentences' = sentences
            /\ IF k = 0
               THEN UNCHANGED <<handler_map, highlights>>
               ELSE LET s == FeedbackOn(handler_map.sentences[k], content,
                                        location) IN
                    /\ handler_map' =
                           [handler_map EXCEPT !.sentences[k] = s]
                    /\ highlights' = IF s.hl
                                     THEN highlights \cup {HlId(s)}
                                     ELSE highlights \ {HlId(s)}
       ELSE /\ handler_map' = handler_map
            /\ IF i = 0
               THEN UNCHANGED <<sentences, highlights>>
               ELSE LET s == FeedbackOn(sentences[i], content, location) IN
                    /\ sentences' = [sentences EXCEPT ![i] = s]
                    /\ highlights' = IF s.hl
                                     THEN highlights \cup {HlId(s)}
                                     ELSE highlights \ {HlId(s)}
    /\ UNCHANGED <<taskVars, workerVars, next_edit_id, state_id_map,
                   failed_sentence, init_state_id, handleVars, proverVars,
                   readerVars, cpc, ctodo, ctmp, ncmds, next_task, doc,
                   task_limit, unitVars, add_next_id, histVars>>

\* the state ids coqtop has given out
ProverStateIds == 1..(prover_next_id - 1)

\* coqtop sends a feedback on one of its states
RecvFeedback ==
    \E state_id \in ProverStateIds, content \in FeedbackContents,
       location \in {"whole", "cut"} :
        OnFeedback(state_id, content, location)

\* coqtop sends an element that cannot be decoded.  A <value> goes to the
\* on_res of the open exchange, whose from_xml raises, so that finally_call
\* calls done; Feedback.from_xml and an unknown tag raise in _on_receive.
\* The exception leaves thread_main of XMLInputThread without cb_end.
RecvUndecodable ==
    /\ rpc = "read"
    /\ proc = "running"
    /\ rpc' = "dead"
    /\ \/ /\ ValueArrives({"init", "forward_one", "backward",
                            "backward_before_mark", "get_goals"})
          /\ Done(Head(cb_res_queue).task)
       \/ UNCHANGED <<handleVars, misdelivered, task_done, done_calls>>
    /\ UNCHANGED <<closing, count, schedule_queue, workerVars, stmVars,
                   proverVars, rcont, rtmp, callerVars, histButDone>>

(* ---------------------------- the caller ------------------------------- *)

\* _find_stop_after on the document: the first sentence stop after `start`
FindStopAfter(start) ==
    LET after == { i \in 1..Len(doc) : MarkAfter(doc[i], start) }
    IN  IF after = {} THEN NoMark
        ELSE doc[CHOOSE i \in after : \A j \in after : i <= j]

\* the loop of VimUI._forward_to_cursor: the stops after `start` up to the cursor
InRegion(start, cursor, stop) ==
    MarkAfter(stop, start) /\ ~MarkAfter(stop, cursor)

RegionsUpTo(start, cursor) ==
    SelectSeq(doc, LAMBDA stop : InRegion(start, cursor, stop))

\* STM.forward_many: one forward_one task per region, then get_goals
ForwardMany(regions, cmd) ==
    [ k \in 1..Len(regions) |-> Template("forward_one", cmd, k, regions[k]) ]
    \o << Template("get_goals", cmd, 0, NoMark) >>

\* the guard of the VimUI commands
CanCommand ==
    /\ cpc = "idle"
    /\ ~IsBusy(count)

\* the command calls schedule() for each of the tasks in turn
Issue(tasks) ==
    /\ next_task + Len(tasks) <= task_limit + 1
    /\ ctodo' = tasks
    /\ cpc' = "sched_read"
    /\ UNCHANGED <<doc, task_limit, unitVars, answerVars>>
    /\ UNCHANGED <<ctmp, next_task, taskVars, workerVars, stmVars, handleVars,
                   proverVars, readerVars, histVars>>

\* VimUI.new_session: STM.init
CmdInit ==
    /\ cpc = "new"
    /\ UNCHANGED ncmds
    /\ Issue(<< Template("init", 0, 0, NoMark) >>)

\* VimUI.forward: STM.forward
CmdForward ==
    /\ CanCommand
    /\ FindStopAfter(GetLastStop(sentences)) # NoMark
    /\ ncmds' = ncmds + 1
    /\ Issue(ForwardMany(<< FindStopAfter(GetLastStop(sentences)) >>, ncmds + 1))

\* VimUI.backward: STM.backward
CmdBackward ==
    /\ CanCommand
    /\ ncmds' = ncmds + 1
    /\ Issue(<< Template("backward", ncmds + 1, 0, NoMark),
                Template("get_goals", ncmds + 1, 0, NoMark) >>)

\* VimUI.to_cursor: STM.forward_many or STM.backward_before_mark
CmdToCursor ==
    /\ CanCommand
    /\ ncmds' = ncmds + 1
    /\ \E cursor \in Cursors :
         IF MarkAfter(cursor, GetLastStop(sentences))
         THEN Issue(ForwardMany(RegionsUpTo(GetLastStop(sentences), cursor),
                                ncmds + 1))
         ELSE Issue(<< Template("backward_before_mark", ncmds + 1, 0, cursor),
                       Template("get_goals", ncmds + 1, 0, NoMark) >>)

\* schedule: the read of `self._scheduled_task_count += 1`
CSchedRead ==
    /\ cpc = "sched_read"
    /\ ctmp' = count
    /\ cpc' = "sched_write"
    /\ UNCHANGED <<doc, task_limit, unitVars, answerVars>>
    /\ UNCHANGED <<ctodo, ncmds, next_task, taskVars, workerVars, stmVars,
                   handleVars, proverVars, readerVars, histVars>>

\* schedule: the write of `self._scheduled_task_count += 1`
CSchedWrite ==
    /\ cpc = "sched_write"
    /\ count' = ctmp + 1
    /\ cpc' = "sched_put"
    /\ UNCHANGED <<doc, task_limit, unitVars, answerVars>>
    /\ UNCHANGED <<closing, schedule_queue, task_done, ctodo, ctmp, ncmds,
                   next_task, workerVars, stmVars, handleVars, proverVars,
                   readerVars, histVars>>

\* schedule: self._schedule_queue.put((task, name)), which waits for room
CSchedPut ==
    /\ cpc = "sched_put"
    /\ Len(schedule_queue) < QueueCap
    /\ schedule_queue' = Enqueue(schedule_queue,
                                 [id |-> next_task, kind |-> Head(ctodo).kind,
                                  cmd |-> Head(ctodo).cmd, pos |-> Head(ctodo).pos,
                                  arg |-> Head(ctodo).arg])
    /\ next_task' = next_task + 1
    /\ ctodo' = Tail(ctodo)
    /\ cpc' = IF Tail(ctodo) = <<>> THEN "idle" ELSE "sched_read"
    /\ UNCHANGED <<doc, task_limit, unitVars, answerVars>>
    /\ UNCHANGED <<closing, count, task_done, ctmp, ncmds, workerVars, stmVars,
                   handleVars, proverVars, readerVars, histVars>>

\* put_nowait((None, None)) of shutdown_join; queue.Full is swallowed
PutNowait(q, item) == IF Len(q) < QueueCap THEN Append(q, item) ELSE q

\* VimUI.close_session: STM.close up to the join of shutdown_join
CClose ==
    /\ cpc = "idle"
    /\ closing' = TRUE
    /\ schedule_queue' = PutNowait(schedule_queue, Sentinel)
    /\ cpc' = "join"
    /\ close_pending' = QueuedIds(schedule_queue)
    /\ UNCHANGED <<doc, task_limit, unitVars, answerVars>>
    /\ UNCHANGED <<count, task_done, ctodo, ctmp, ncmds, next_task, workerVars,
                   stmVars, handleVars, proverVars, readerVars, started,
                   done_calls, sent, failed_adds, conn_lost, eof_busy, lost_cb_done, pre_discard, cancelled,
                   discard_runners, misdelivered>>

\* self._thread.join() returns once thread_main has ended
WorkerEnded(pc) == pc \in {"quit", "dead"}

\* STM.close after the join
CJoin ==
    /\ cpc = "join"
    /\ WorkerEnded(wpc)
    /\ highlights' = highlights \
                     { HlId(s) : s \in { r \in Range(sentences) : r.hl } }
    /\ sentences' = <<>>
    /\ state_id_map' = {}
    /\ handler_map' = Detach(handler_map, sentences)
    /\ cpc' = "closed"
    /\ UNCHANGED <<doc, task_limit, unitVars, add_next_id, shown>>
    /\ UNCHANGED <<taskVars, workerVars, next_edit_id, failed_sentence,
                   init_state_id, handleVars, proverVars, readerVars, ctodo,
                   ctmp, ncmds, next_task, histVars>>

(* --------------------------- specification ----------------------------- *)

Next ==
    \/ CmdInit \/ CmdForward \/ CmdBackward \/ CmdToCursor
    \/ CSchedRead \/ CSchedWrite \/ CSchedPut \/ CClose \/ CJoin
    \/ WQuit \/ WRunInit \/ WRunForwardOne \/ WRunBackward
    \/ WRunBackwardBeforeMark \/ WRunGetGoals \/ WAcquire \/ WDec
    \/ RecvInitRes \/ RecvAddRes \/ RecvEditAtRes \/ RecvGoalRes \/ RecvEof
    \/ RDiscardGet \/ RDiscardDec \/ RAddFailed \/ RConnectionLost

Spec == Init /\ [][Next]_vars

\* coqtop answers Init, Add and Edit_at with a good value
GoodInitRes == RecvInitRes /\ rpc' = "read"

GoodAddRes == RecvAddRes /\ rpc' = "read"

GoodEditAtRes == RecvEditAtRes /\ rpc' = "read"

\* the runs in which coqtop never fails a request and never closes its
\* output, and the session stays open
NextNoFault ==
    \/ CmdInit \/ CmdForward \/ CmdBackward \/ CmdToCursor
    \/ CSchedRead \/ CSchedWrite \/ CSchedPut
    \/ WRunInit \/ WRunForwardOne \/ WRunBackward
    \/ WRunBackwardBeforeMark \/ WRunGetGoals \/ WAcquire \/ WDec
    \/ GoodInitRes \/ GoodAddRes \/ GoodEditAtRes \/ RecvGoalRes

SpecNoFault == InitNoFault /\ [][NextNoFault]_vars

\* an Add response may name the tip the prover moved to
RecvAddResUnfocus == RecvAddResWith(0..(prover_next_id - 1))

\* the runs in which the user steps forward and coqtop also sends feedbacks,
\* elements that cannot be decoded and Add responses with a next_state_id;
\* it does not close its output
NextProver ==
    \/ CmdInit \/ CmdForward
    \/ CSchedRead \/ CSchedWrite \/ CSchedPut
    \/ WRunInit \/ WRunForwardOne \/ WRunGetGoals \/ WAcquire \/ WDec
    \/ RecvInitRes \/ RecvAddResUnfocus \/ RecvGoalRes
    \/ RDiscardGet \/ RDiscardDec \/ RAddFailed
    \/ RecvFeedback \/ RecvUndecodable

\* the same session, closed at some time while coqtop goes on sending
NextClosing == NextProver \/ CClose \/ CJoin \/ WQuit

SpecClosing == InitProver /\ [][NextClosing]_vars

SpecProver == InitProver /\ [][NextProver]_vars

TypeOK ==
    /\ closing \in BOOLEAN
    /\ count \in Int
    /\ task_done \in Nat
    /\ wpc \in {"get", "acquire", "dec", "quit", "dead"}
    /\ rpc \in {"read", "discard", "discard_dec", "quit", "dead"}
    /\ cpc \in {"new", "idle", "sched_read", "sched_write", "sched_put",
                "join", "closed"}
    /\ proc \in {"running", "closed", "failed"}
    /\ next_task \in 1..(task_limit + 1)


(* ------------- one Sentence and the actions it hands to the UI --------- *)

sessionVars == <<taskVars, workerVars, stmVars, handleVars, proverVars,
                 readerVars, cpc, ctodo, ctmp, ncmds, next_task, doc,
                 task_limit, histVars, answerVars>>

\* actions.HlRegion and actions.UnhlRegion; id stands for the token _hlcount
HlRegion(id, hlgroup) == [op |-> "HlRegion", id |-> id, hlgroup |-> hlgroup]
UnhlRegion(id) == [op |-> "UnhlRegion", id |-> id, hlgroup |-> "None"]

\* a method leaves the object as `obj` and has called handle_action on `out`
Outcome(obj, out) == [obj |-> obj, out |-> out]

\* Sentence.unhighlight
UnhighlightObj(o) ==
    IF o.hlid # 0
    THEN Outcome([o EXCEPT !.hlid = 0, !.flag = "None"], <<UnhlRegion(o.hlid)>>)
    ELSE Outcome(o, <<>>)

\* Sentence._highlight
HighlightObj(o, hlgroup) ==
    LET u == UnhighlightObj(o) IN
    Outcome([u.obj EXCEPT !.hlid = u.obj.hlcount + 1,
                          !.hlcount = u.obj.hlcount + 1],
            u.out \o <<HlRegion(u.obj.hlcount + 1, hlgroup)>>)

\* self._flag = flag at the end of a method
WithFlag(res, flag) == Outcome([res.obj EXCEPT !.flag = flag], res.out)

\* Sentence.set_processing
SetProcessingObj(o) ==
    IF o.flag = "CoqStcProcessing" THEN Outcome(o, <<>>)
    ELSE WithFlag(HighlightObj(o, "CoqStcProcessing"), "CoqStcProcessing")

\* Sentence.set_processed
SetProcessedOverAxiom(o) ==
    IF o.flag \in {"CoqStcProcessed", "CoqStcError"} THEN Outcome(o, <<>>)
    ELSE WithFlag(HighlightObj(o, "CoqStcProcessed"), "CoqStcProcessed")

SetProcessedObj(o) ==
    IF o.flag \in {"CoqStcAxiom", "CoqStcProcessed", "CoqStcError"}
    THEN Outcome(o, <<>>)
    ELSE WithFlag(HighlightObj(o, "CoqStcProcessed"), "CoqStcProcessed")

\* Sentence.set_axiom
SetAxiomObj(o) == WithFlag(HighlightObj(o, "CoqStcAxiom"), "CoqStcAxiom")

\* Sentence.set_error; the location is missing or empty ("whole"), a part of
\* the sentence ("part"), or cut by OffsetToMark to an empty part ("cut"),
\* for which _highlight_sub returns without a highlight
SetErrorObj(o, location) ==
    LET u == UnhighlightObj(o)
        h == IF location = "cut" THEN Outcome(u.obj, <<>>)
             ELSE HighlightObj(u.obj, "CoqStcError")
    IN  WithFlag(Outcome(h.obj, u.out \o h.out), "CoqStcError")

\* Sentence.rehighlight: UnhlRegion(*self._hlid), then
\* self._highlight(self._flag), which starts with unhighlight()
RehighlightObj(o) ==
    IF o.hlid = 0 THEN Outcome(o, <<>>)
    ELSE LET h == HighlightObj(o, o.flag) IN
         Outcome(h.obj, <<UnhlRegion(o.hlid)>> \o h.out)

\* the call of a method on the Sentence
Call(res) ==
    /\ res.obj.hlcount <= MaxHighlights
    /\ snt' = res.obj
    /\ hl_released' =
           [i \in 1..MaxHighlights |->
               hl_released[i]
               + Cardinality({ k \in 1..Len(res.out) :
                                 res.out[k] = UnhlRegion(i) })]
    /\ hl_group' =
           [i \in 1..MaxHighlights |->
               IF \E k \in 1..Len(res.out) :
                      res.out[k].op = "HlRegion" /\ res.out[k].id = i
               THEN (CHOOSE a \in Range(res.out) :
                         a.op = "HlRegion" /\ a.id = i).hlgroup
               ELSE hl_group[i]]
    /\ UNCHANGED <<sessionVars, coqtopReaderVars, chunkVars, uiVars>>

\* STM._forward_one.on_res: sentence.set_processing
CallSetProcessing ==
    /\ Call(SetProcessingObj(snt))
    /\ axiom_kept' = FALSE

\* FeedbackHandler._on_processed
CallSetProcessed ==
    /\ Call(SetProcessedObj(snt))
    /\ UNCHANGED axiom_kept

\* FeedbackHandler._on_added_axiom
CallSetAxiom ==
    /\ Call(SetAxiomObj(snt))
    /\ axiom_kept' = TRUE

\* FeedbackHandler._on_error_msg and _on_message
CallSetError ==
    /\ \E location \in {"whole", "part", "cut"} :
           Call(SetErrorObj(snt, location))
    /\ UNCHANGED axiom_kept

\* the removal of the sentence: sentence.unhighlight
CallUnhighlight ==
    /\ Call(UnhighlightObj(snt))
    /\ axiom_kept' = FALSE

CallRehighlight ==
    /\ Call(RehighlightObj(snt))
    /\ axiom_kept' = FALSE

NextSentence ==
    \/ CallSetProcessing \/ CallSetProcessed \/ CallSetAxiom \/ CallSetError
    \/ CallUnhighlight \/ CallRehighlight

SpecSentence == Init /\ [][NextSentence]_vars

(* ----------------- _CoqtopReader of coqtopinstance.py ------------------ *)

\* None in _res_queue
NoResponse == 0

\* _thread_entry: read1 returns a response, which is put on _res_queue
CrReadResponse ==
    /\ cr_pc = "read"
    /\ cr_written < MaxResponses
    /\ cr_written' = cr_written + 1
    /\ cr_queue' = Append(cr_queue, cr_written + 1)
    /\ UNCHANGED <<cr_closed, cr_pc, cg_pc, cg_res, cg_returned, sessionVars,
                   sentenceVars, chunkVars, uiVars>>

\* _thread_entry: read1 returns b'' and _closed is set
CrReadEof ==
    /\ cr_pc = "read"
    /\ cr_closed' = TRUE
    /\ cr_pc' = "put_none"
    /\ UNCHANGED <<cr_queue, cr_written, cg_pc, cg_res, cg_returned,
                   sessionVars, sentenceVars, chunkVars, uiVars>>

\* _thread_entry: self._res_queue.put(None), and the thread ends
CrPutNone ==
    /\ cr_pc = "put_none"
    /\ cr_queue' = Append(cr_queue, NoResponse)
    /\ cr_pc' = "done"
    /\ UNCHANGED <<cr_closed, cr_written, cg_pc, cg_res, cg_returned,
                   sessionVars, sentenceVars, chunkVars, uiVars>>

\* a call of get_response() or get_responses_nowait() begins
CgCall ==
    /\ cg_pc = "idle"
    /\ cg_pc' \in {"get", "nowait"}
    /\ cg_returned' = "nothing"
    /\ UNCHANGED <<cr_closed, cr_queue, cr_pc, cr_written, cg_res, sessionVars,
                   sentenceVars, chunkVars, uiVars>>

\* res = self._res_queue.get() of get_response, which waits for an item, and
\* response = self._res_queue.get_nowait() of get_responses_nowait
CgTake ==
    /\ cg_pc \in {"get", "nowait"}
    /\ cr_queue # <<>>
    /\ cg_res' = Head(cr_queue)
    /\ cr_queue' = Tail(cr_queue)
    /\ cg_pc' = IF cg_pc = "get" THEN "check" ELSE "nowait_check"
    /\ UNCHANGED <<cr_closed, cr_pc, cr_written, cg_returned, sessionVars,
                   sentenceVars, chunkVars, uiVars>>

\* `res is None or self._closed`
QuitSeen(res, closed) == res = NoResponse \/ closed

\* get_response: raise CoqtopQuit() or return res
GetResponseCheck ==
    /\ cg_pc = "check"
    /\ cg_returned' = IF QuitSeen(cg_res, cr_closed) THEN "CoqtopQuit"
                      ELSE "response"
    /\ cg_pc' = "idle"
    /\ UNCHANGED <<cr_closed, cr_queue, cr_pc, cr_written, cg_res, sessionVars,
                   sentenceVars, chunkVars, uiVars>>

\* get_responses_nowait: break, or append the response and go on
NowaitCheck ==
    /\ cg_pc = "nowait_check"
    /\ cg_pc' = IF QuitSeen(cg_res, cr_closed) THEN "idle" ELSE "nowait"
    /\ UNCHANGED <<cr_closed, cr_queue, cr_pc, cr_written, cg_res, cg_returned,
                   sessionVars, sentenceVars, chunkVars, uiVars>>

\* get_responses_nowait: queue.Empty ends the loop
NowaitEmpty ==
    /\ cg_pc = "nowait"
    /\ cr_queue = <<>>
    /\ cg_pc' = "idle"
    /\ UNCHANGED <<cr_closed, cr_queue, cr_pc, cr_written, cg_res, cg_returned,
                   sessionVars, sentenceVars, chunkVars, uiVars>>

NextCoqtopReader ==
    \/ CrReadResponse \/ CrReadEof \/ CrPutNone
    \/ CgCall \/ CgTake \/ GetResponseCheck \/ NowaitCheck \/ NowaitEmpty

SpecCoqtopReader == Init /\ [][NextCoqtopReader]_vars

(* ------- the read loops: XMLInputThread and _CoqtopReader._thread_entry --- *)

\* The stream is cut at the level of bytes.  A top-level element is written
\* as its opening byte, its text and its closing byte; the text is empty or
\* one character that UTF-8 encodes in two bytes.
Byte(el, part) == [el |-> el, part |-> part]

ElementBytes(el, text) ==
    IF text = "wide"
    THEN << Byte(el, "open"), Byte(el, "lead"), Byte(el, "trail"),
            Byte(el, "close") >>
    ELSE << Byte(el, "open"), Byte(el, "close") >>

ChunkReaders == {"XMLInputThread", "_CoqtopReader"}

\* thread_main of XMLInputThread calls chunk.decode() on every chunk;
\* _thread_entry hands the bytes to the parser
Decodes(r) == r = "XMLInputThread"

\* bytes.decode() of a chunk: UnicodeDecodeError when the chunk starts or
\* ends inside a character
DecodeFails(chunk) ==
    \/ chunk[1].part = "trail"
    \/ chunk[Len(chunk)].part = "lead"

\* ET.fromstringlist(<root> + fragments + </root>) raises ParseError unless
\* the fragments are whole elements
ParseOk(fragments) ==
    /\ fragments # <<>>
    /\ fragments[1].part = "open"
    /\ fragments[Len(fragments)].part = "close"

\* `for element in root`: the elements of the parsed fragments, in order
RootElements(fragments) ==
    LET closes == SelectSeq(fragments, LAMBDA b : b.part = "close")
    IN  [ i \in 1..Len(closes) |-> closes[i].el ]

\* coqtop writes its next element
CoqtopWrites ==
    /\ \E text \in {"ascii", "wide"} :
         LET el == Len(SelectSeq(xml_stream, LAMBDA b : b.part = "open")) + 1
         IN  /\ el <= MaxElements
             /\ xml_stream' = xml_stream \o ElementBytes(el, text)
    /\ UNCHANGED <<chunk_reader, sessionVars, sentenceVars, coqtopReaderVars,
                   uiVars>>

\* one turn of the loop: read1(1000) returns n bytes, which are decoded (in
\* XMLInputThread), added to the fragments and parsed with them
ReadChunk(r, n) ==
    LET me == chunk_reader[r]
        chunk == SubSeq(xml_stream, me.pos + 1, me.pos + n)
        fragments == SubSeq(xml_stream, me.held + 1, me.pos + n)
    IN  /\ me.pc = "read"
        /\ me.pos + n <= Len(xml_stream)
        /\ chunk_reader' =
             [chunk_reader EXCEPT ![r] =
                IF Decodes(r) /\ DecodeFails(chunk)
                THEN \* UnicodeDecodeError leaves thread_main
                     [me EXCEPT !.pos = me.pos + n, !.pc = "dead"]
                ELSE IF ParseOk(fragments)
                THEN [me EXCEPT !.pos = me.pos + n, !.held = me.pos + n,
                                !.emitted = @ \o RootElements(fragments)]
                ELSE [me EXCEPT !.pos = me.pos + n]]
        /\ UNCHANGED <<xml_stream, sessionVars, sentenceVars,
                       coqtopReaderVars, uiVars>>

XMLInputThreadReads == \E n \in 1..MaxChunk : ReadChunk("XMLInputThread", n)

ThreadEntryReads == \E n \in 1..MaxChunk : ReadChunk("_CoqtopReader", n)

NextChunks == CoqtopWrites \/ XMLInputThreadReads \/ ThreadEntryReads

SpecChunks == Init /\ [][NextChunks]_vars

(* --------------------- SessionView and TabpageView --------------------- *)

\* the older parts, which no view touches
lowerVars == <<sessionVars, sentenceVars, coqtopReaderVars, chunkVars>>

\* TabpageView.show_message
TabpageShowMessage(tp, m) ==
    [tp EXCEPT !.messages = Append(@, m), !.messages_changed = TRUE]

\* TabpageView.set_goals
TabpageSetGoals(tp, goals) ==
    [tp EXCEPT !.goals = goals, !.goals_changed = TRUE]

\* TabpageView.clear_messages
TabpageClearMessages(tp) ==
    [tp EXCEPT !.messages = <<>>, !.messages_changed = TRUE]

\* the loop "for level, message in self._messages: show_message(...)"
RECURSIVE TabpageShowAll(_, _)
TabpageShowAll(tp, ms) ==
    IF ms = <<>> THEN tp
    ELSE TabpageShowAll(TabpageShowMessage(tp, Head(ms)), Tail(ms))

\* SessionView.focus, on a view that is not focused: what the tabpage becomes
FocusTabpage(v, tp) ==
    LET shown_all == TabpageShowAll(TabpageClearMessages(tp),
                                    session_view[v].messages)
    IN  IF session_view[v].goals # NoGoals
        THEN TabpageSetGoals(shown_all, session_view[v].goals)
        ELSE shown_all

\* SessionView.set_active: what the tabpage becomes
SetActiveTabpage(v, tp) ==
    TabpageShowAll(TabpageSetGoals(tp, session_view[v].goals),
                   session_view[v].messages)

\* SessionView.show_message
SvShowMessage(v, m) ==
    /\ Len(session_view[v].messages) < MaxViewMessages
    /\ Len(tabpage_view.messages) < MaxTabpageMessages
    /\ session_view' = [session_view EXCEPT ![v].messages = Append(@, m)]
    /\ tabpage_view' = IF session_view[v].focused
                       THEN TabpageShowMessage(tabpage_view, m)
                       ELSE tabpage_view
    /\ UNCHANGED <<last_focused, lowerVars, besidesViews>>

\* SessionView.set_goals
SvSetGoals(v, goals) ==
    /\ session_view' = [session_view EXCEPT ![v].goals = goals]
    /\ tabpage_view' = IF session_view[v].focused
                       THEN TabpageSetGoals(tabpage_view, goals)
                       ELSE tabpage_view
    /\ UNCHANGED <<last_focused, lowerVars, besidesViews>>

\* Plugin.focus: SessionView.unfocus of the last view, SessionView.focus of
\* this one
PluginFocus(v) ==
    /\ last_focused # v
    /\ session_view' = [u \in Bufnrs |->
                           [session_view[u] EXCEPT !.focused = (u = v)]]
    /\ last_focused' = v
    /\ tabpage_view' = IF session_view[v].focused THEN tabpage_view
                       ELSE FocusTabpage(v, tabpage_view)
    /\ UNCHANGED <<lowerVars, besidesViews>>

\* Plugin.set_active -> SessionView.set_active (set_inactive touches the
\* matches of the window only)
SvSetActive(v) ==
    /\ Len(tabpage_view.messages) + Len(session_view[v].messages)
           <= MaxTabpageMessages
    /\ tabpage_view' = SetActiveTabpage(v, tabpage_view)
    /\ UNCHANGED <<session_view, last_focused, lowerVars, besidesViews>>

\* TabpageView.draw
TabpageDraw ==
    /\ tabpage_view.goals_changed \/ tabpage_view.messages_changed
    /\ tabpage_view' = [tabpage_view EXCEPT !.goals_changed = FALSE,
                                            !.messages_changed = FALSE]
    /\ UNCHANGED <<session_view, last_focused, lowerVars, besidesViews>>

ShowsMessage == \E v \in Bufnrs, m \in MessageValues : SvShowMessage(v, m)

SetsGoals == \E v \in Bufnrs, g \in GoalValues : SvSetGoals(v, g)

Focuses == \E v \in Bufnrs : PluginFocus(v)

SetsActive == \E v \in Bufnrs : SvSetActive(v)

NextViews ==
    ShowsMessage \/ SetsGoals \/ Focuses \/ SetsActive \/ TabpageDraw

SpecViews == Init /\ [][NextViews]_vars

(* ------------------- _MatchView, _TaskExecutor, _Match ------------------ *)

\* _Match.show in a window that displays ms
MatchShow(ms, m) ==
    IF \E r \in ms : r.match = m THEN ms
    ELSE ms \cup {[match |-> m, line |-> match_arg[m]]}

\* _Match.hide
MatchHide(ms, m) == {r \in ms : r.match # m}

\* _Match.redraw
MatchRedraw(ms, m) ==
    IF \E r \in ms : r.match = m THEN MatchShow(MatchHide(ms, m), m) ELSE ms

\* _Task.run
TaskRun(ms, task) ==
    IF task.cancelled THEN ms
    ELSE IF task.func = "show" THEN MatchShow(ms, task.match)
    ELSE IF task.func = "hide" THEN MatchHide(ms, task.match)
    ELSE MatchRedraw(ms, task.match)

\* _TaskExecutor.run_all: the tasks in the order they were added
RECURSIVE RunAll(_, _)
RunAll(ms, tasks) ==
    IF tasks = <<>> THEN ms ELSE RunAll(TaskRun(ms, Head(tasks)), Tail(tasks))

\* _TaskExecutor.add
ExecutorAdd(e, key, func) ==
    [e EXCEPT !.task_list = Append(@, [func |-> func, match |-> key,
                                       cancelled |-> FALSE]),
              !.task_map[key] = Len(e.task_list) + 1]

\* _TaskExecutor.add_nokey
ExecutorAddNokey(e, func, m) ==
    [e EXCEPT !.task_list = Append(@, [func |-> func, match |-> m,
                                       cancelled |-> FALSE])]

\* _TaskExecutor.cancel: whether the key has a task, and the executor after
ExecutorHasKey(e, key) == e.task_map[key] # 0

ExecutorCancel(e, key) ==
    IF ExecutorHasKey(e, key)
    THEN [e EXCEPT !.task_list[e.task_map[key]].cancelled = TRUE]
    ELSE e

\* the matches of the view shown one after the other, as set_active does
RECURSIVE ShowEach(_, _)
ShowEach(ms, todo) ==
    IF todo = {} THEN ms
    ELSE LET m == CHOOSE x \in todo : TRUE
         IN  ShowEach(MatchShow(ms, m), todo \ {m})

\* the matches of the view hidden one after the other, as set_inactive does
HideEach(ms, todo) == {r \in ms : r.match \notin todo}

\* _MatchView.set_active
MvSetActive(w) ==
    /\ ~win_executors[w].active
    /\ win_executors' = [win_executors EXCEPT
                            ![w] = [NoExecutor EXCEPT !.active = TRUE]]
    /\ win_matches' = [win_matches EXCEPT ![w] = ShowEach(@, match_map)]
    /\ UNCHANGED <<match_map, match_arg, next_match_id, drawn, lowerVars,
                   besidesMatches>>

\* _MatchView.set_inactive
MvSetInactive(w) ==
    /\ win_executors[w].active
    /\ win_executors' = [win_executors EXCEPT ![w] = NoExecutor]
    /\ win_matches' = [win_matches EXCEPT ![w] = HideEach(@, match_map)]
    /\ UNCHANGED <<match_map, match_arg, next_match_id, drawn, lowerVars,
                   besidesMatches>>

\* _MatchView.add, with the id of a new match
MvAdd ==
    /\ next_match_id <= MaxMatches
    /\ match_map' = match_map \cup {next_match_id}
    /\ next_match_id' = next_match_id + 1
    /\ win_executors' =
           [w \in Winids |->
               IF win_executors[w].active
               THEN ExecutorAdd(win_executors[w], next_match_id, "show")
               ELSE win_executors[w]]
    /\ drawn' = FALSE
    /\ UNCHANGED <<match_arg, win_matches, lowerVars, besidesMatches>>

\* _MatchView.move
MvMove(m) ==
    /\ m \in match_map
    /\ match_arg[m] < MaxMoves
    /\ match_arg' = [match_arg EXCEPT ![m] = @ + 1]
    /\ win_executors' =
           [w \in Winids |->
               IF win_executors[w].active
               THEN ExecutorAddNokey(win_executors[w], "redraw", m)
               ELSE win_executors[w]]
    /\ drawn' = FALSE
    /\ UNCHANGED <<match_map, next_match_id, win_matches, lowerVars,
                   besidesMatches>>

\* _MatchView.remove
MvRemove(m) ==
    /\ m \in match_map
    /\ match_map' = match_map \ {m}
    /\ win_executors' =
           [w \in Winids |->
               IF ~win_executors[w].active THEN win_executors[w]
               ELSE IF ExecutorHasKey(win_executors[w], m)
               THEN ExecutorCancel(win_executors[w], m)
               ELSE ExecutorAddNokey(win_executors[w], "hide", m)]
    /\ drawn' = FALSE
    /\ UNCHANGED <<match_arg, next_match_id, win_matches, lowerVars,
                   besidesMatches>>

\* _MatchView.draw
MvDraw ==
    /\ ~drawn
    /\ win_matches' = [w \in Winids |->
                          RunAll(win_matches[w], win_executors[w].task_list)]
    /\ win_executors' =
           [w \in Winids |->
               IF win_executors[w].active
               THEN [NoExecutor EXCEPT !.active = TRUE]
               ELSE win_executors[w]]
    /\ drawn' = TRUE
    /\ UNCHANGED <<match_map, match_arg, next_match_id, lowerVars,
                   besidesMatches>>

Activates == \E w \in Winids : MvSetActive(w)

Deactivates == \E w \in Winids : MvSetInactive(w)

Moves == \E m \in MatchIds : MvMove(m)

Removes == \E m \in MatchIds : MvRemove(m)

NextMatches ==
    Activates \/ Deactivates \/ MvAdd \/ Moves \/ Removes \/ MvDraw

SpecMatches == Init /\ [][NextMatches]_vars

(* --------------------------- _ThreadExecutor --------------------------- *)

\* the tasks the plugin submits: functions that return, functions that raise
TaskKinds == {"returns", "raises"}

\* _ThreadExecutor.is_busy
TeIsBusy == te_task_count > 0

\* _ThreadExecutor.submit
TeSubmit(task) ==
    /\ te_submitted < MaxSubmits
    /\ te_task_count' = te_task_count + 1
    /\ te_task_queue' = Append(te_task_queue, task)
    /\ te_submitted' = te_submitted + 1
    /\ UNCHANGED <<te_pc, te_task, te_finished, lowerVars, besidesExecutor>>

\* _thread_main: task = self._task_queue.get()
TeGet ==
    /\ te_pc = "get"
    /\ te_task_queue # <<>>
    /\ te_task' = Head(te_task_queue)
    /\ te_task_queue' = Tail(te_task_queue)
    /\ te_pc' = "run"
    /\ UNCHANGED <<te_task_count, te_submitted, te_finished, lowerVars,
                   besidesExecutor>>

\* _thread_main: func(*args, **kwargs); an exception is logged and raised
\* again, which ends the thread
TeRun ==
    /\ te_pc = "run"
    /\ te_finished' = te_finished + 1
    /\ te_pc' = IF te_task = "raises" THEN "dead" ELSE "dec"
    /\ UNCHANGED <<te_task_count, te_task_queue, te_task, te_submitted,
                   lowerVars, besidesExecutor>>

\* _thread_main: self._task_count -= 1, under the lock
TeDec ==
    /\ te_pc = "dec"
    /\ te_task_count' = te_task_count - 1
    /\ te_pc' = "get"
    /\ UNCHANGED <<te_task_queue, te_task, te_submitted, te_finished,
                   lowerVars, besidesExecutor>>

Submits == \E task \in TaskKinds : TeSubmit(task)

NextExecutor == Submits \/ TeGet \/ TeRun \/ TeDec

SpecExecutor == Init /\ [][NextExecutor]_vars

(* -------------------------- Session.to_cursor -------------------------- *)

\* get_sentence_after: the stop of the sentence that starts at the mark, in a
\* buffer whose sentences end at stops; NoMark stands for None
GetSentenceAfter(stops, mark) ==
    LET later == {i \in 1..Len(stops) : MarkAfter(stops[i], mark)}
    IN  IF later = {} THEN NoMark
        ELSE stops[CHOOSE i \in later : \A j \in later : i <= j]

\* Session._forward_between from the sentence get_sentence_after gave:
\* `sentence.stop` of None raises AttributeError before anything is submitted
RECURSIVE ForwardFrom(_, _, _, _)
ForwardFrom(stops, sentence, to_mark, sents) ==
    IF sentence = NoMark
    THEN [submitted |-> "AttributeError", arg |-> <<>>]
    ELSE IF ~MarkAfter(sentence, to_mark)
    THEN ForwardFrom(stops, GetSentenceAfter(stops, sentence), to_mark,
                     Append(sents, sentence))
    ELSE [submitted |-> "add", arg |-> sents]

\* Session._forward_between
ForwardBetween(stops, from_mark, to_mark) ==
    ForwardFrom(stops, GetSentenceAfter(stops, from_mark), to_mark, <<>>)

\* Session.to_cursor: what it submits to the executor
ToCursorSubmits(stops, tip_stop, cursor) ==
    IF MarkAfter(cursor, tip_stop)
    THEN ForwardBetween(stops, tip_stop, cursor)
    ELSE IF MarkAfter(tip_stop, cursor)
    THEN [submitted |-> "edit_at", arg |-> <<cursor>>]
    ELSE [submitted |-> "nothing", arg |-> <<>>]

\* STM.get_tip_stop of a session that has added the first n sentences
TipStopAfter(stops, n) == IF n = 0 THEN RootMark ELSE stops[n]

\* Session.to_cursor in a buffer of len sentences, n of them added
SessionToCursor(len, n, cursor) ==
    LET stops == SeqTake(AllStops, len)
        tip_stop == TipStopAfter(stops, n)
        res == ToCursorSubmits(stops, tip_stop, cursor)
    IN  /\ to_cursor_call' = [len |-> len, tip |-> tip_stop,
                              cursor |-> cursor,
                              submitted |-> res.submitted, arg |-> res.arg]
        /\ UNCHANGED <<lowerVars, besidesToCursor>>

NextToCursor ==
    \E len \in 0..ScanDocLen, cursor \in CursorMarks :
        \E n \in 0..len : SessionToCursor(len, n, cursor)

SpecToCursor == Init /\ [][NextToCursor]_vars

(* ----------------------------- xmlprotocol ----------------------------- *)

\* the values without items: None, the bools, two strings, two ints and a
\* StateID
PyBool(b) == PyValue("bool", b, 0, <<>>)

PyStr(text) == PyValue("str", text, 0, <<>>)

PyInt(n) == PyValue("int", "", n, <<>>)

PyStateID(n) == PyValue("StateID", "", n, <<>>)

PyAtoms ==
    {PyNone, PyBool("True"), PyBool("False"), PyStr(""), PyStr("a"),
     PyInt(0), PyInt(7), PyStateID(1)}

\* lists and tuples of up to two items, UnionL and UnionR of one
ItemSeqs(vals) == {<<>>} \cup {<<x>> : x \in vals}
                     \cup {<<x, y>> : x \in vals, y \in vals}

RECURSIVE PyValues(_)
PyValues(depth) ==
    IF depth = 0 THEN PyAtoms
    ELSE LET inner == PyValues(depth - 1)
         IN  inner
               \cup {PyValue("list", "", 0, items) : items \in ItemSeqs(inner)}
               \cup {PyValue("tuple", "", 0, items) : items \in ItemSeqs(inner)}
               \cup {PyValue("UnionL", "", 0, <<x>>) : x \in inner}
               \cup {PyValue("UnionR", "", 0, <<x>>) : x \in inner}

\* str(v) of an int, and int(text)
IntToStr(n) == IF n = 0 THEN "0" ELSE IF n = 1 THEN "1" ELSE "7"

StrToInt(text) == IF text = "0" THEN 0 ELSE IF text = "1" THEN 1 ELSE 7

\* str(v).lower() of a bool
BoolToVal(b) == IF b = "True" THEN "true" ELSE "false"

\* isinstance(v, tuple): StateID, UnionL and UnionR are namedtuples of one
\* field, which are tuples of length 1
IsTuple(v) == v.t \in {"tuple", "StateID", "UnionL", "UnionR"}

TupleLen(v) == IF v.t = "StateID" THEN 1 ELSE Len(v.items)

\* _data_to_xml: the converters of _CONVERTERS_TO_XML in their order
RECURSIVE DataToXml(_)
DataToXml(v) ==
    LET children == [i \in 1..Len(v.items) |-> DataToXml(v.items[i])]
    IN  IF v.t = "NoneType" THEN Xml("unit", "", "", <<>>)
        ELSE IF v.t = "bool" THEN Xml("bool", BoolToVal(v.text), "", <<>>)
        ELSE IF v.t = "str" THEN Xml("string", "", v.text, <<>>)
        ELSE IF v.t = "int" THEN Xml("int", "", IntToStr(v.num), <<>>)
        ELSE IF v.t = "StateID"
        THEN Xml("state_id", IntToStr(v.num), "", <<>>)
        ELSE IF v.t = "list" THEN Xml("list", "", "", children)
        ELSE IF IsTuple(v) /\ TupleLen(v) = 0
        THEN Xml("option", "none", "", <<>>)
        ELSE IF IsTuple(v) /\ TupleLen(v) = 1
        THEN Xml("option", "some", "", children)
        ELSE IF IsTuple(v) /\ TupleLen(v) = 2
        THEN Xml("pair", "", "", children)
        ELSE IF v.t = "UnionL" THEN Xml("union", "in_l", "", children)
        ELSE Xml("union", "in_r", "", children)

\* _data_from_xml: the converters of _CONVERTERS_FROM_XML in their order
RECURSIVE DataFromXml(_)
DataFromXml(x) ==
    LET items == [i \in 1..Len(x.child) |-> DataFromXml(x.child[i])]
    IN  IF x.tag = "unit" THEN PyNone
        ELSE IF x.tag = "bool" /\ x.val = "true" THEN PyBool("True")
        ELSE IF x.tag = "bool" /\ x.val = "false" THEN PyBool("False")
        ELSE IF x.tag = "string" THEN PyStr(x.text)
        ELSE IF x.tag = "int" THEN PyInt(StrToInt(x.text))
        ELSE IF x.tag = "state_id" THEN PyStateID(StrToInt(x.val))
        ELSE IF x.tag = "list" THEN PyValue("list", "", 0, items)
        ELSE IF x.tag = "option" /\ x.val = "some"
        THEN PyValue("tuple", "", 0, <<items[1]>>)
        ELSE IF x.tag = "option" /\ x.val = "none"
        THEN PyValue("tuple", "", 0, <<>>)
        ELSE IF x.tag = "pair" THEN PyValue("tuple", "", 0, items)
        ELSE IF x.tag = "union" /\ x.val = "in_l"
        THEN PyValue("UnionL", "", 0, <<items[1]>>)
        ELSE PyValue("UnionR", "", 0, <<items[1]>>)

\* a value is serialized and the element is deserialized
CodecRoundTrip(v) ==
    /\ ~codec_call.called
    /\ codec_call' = [called |-> TRUE, value |-> v, xml |-> DataToXml(v),
                      decoded |-> DataFromXml(DataToXml(v))]
    /\ UNCHANGED <<lowerVars, besidesCodec>>

NextCodec == \E v \in PyValues(CodecDepth) : CodecRoundTrip(v)

SpecCodec == Init /\ [][NextCodec]_vars

(* ------------------------- _SentenceEndMatcher ------------------------- *)

\* the characters of the buffer: one letter stands for all that are in no
\* table
BufferChars == {"(", "*", ")", ".", "\"", " ", "-", "a"}

Whitespace == {" ", "\t", "\n"}

\* _TRANSITIONS[state].get(char, _TRANSITIONS[state][None])
Transition(state, char) ==
    IF state = "LEADING_SPACE"
    THEN IF char = "(" THEN "PRE_COMMENT"
         ELSE IF char = "." THEN "PRE_DOT"
         ELSE IF char = "\"" THEN "STRING"
         ELSE IF char \in Whitespace THEN "LEADING_SPACE"
         ELSE IF char = "-" THEN "MINUS"
         ELSE IF char = "+" THEN "PLUS"
         ELSE IF char = "*" THEN "TIMES"
         ELSE IF char \in {"{", "}"} THEN "BRACKET"
         ELSE "OP_START_SENTENCE"
    ELSE IF state = "FREE"
    THEN IF char = "(" THEN "PRE_COMMENT"
         ELSE IF char = "." THEN "PRE_DOT"
         ELSE IF char = "\"" THEN "STRING"
         ELSE "FREE"
    ELSE IF state = "PRE_COMMENT"
    THEN IF char = "*" THEN "OP_ENTER_COMMENT"
         ELSE IF char = "." THEN "PRE_DOT"
         ELSE "OP_NOT_COMMENT"
    ELSE IF state = "COMMENT"
    THEN IF char = "*" THEN "POST_COMMENT"
         ELSE IF char = "(" THEN "PRE_COMMENT"
         ELSE "COMMENT"
    ELSE IF state = "POST_COMMENT"
    THEN IF char = "*" THEN "POST_COMMENT"
         ELSE IF char = ")" THEN "OP_LEAVE_COMMENT"
         ELSE "COMMENT"
    ELSE IF state = "PRE_DOT"
    THEN IF char \in Whitespace THEN "FINAL"
         ELSE IF char = "." THEN "PRE_ELLIPSIS_1"
         ELSE "FREE"
    ELSE IF state = "STRING"
    THEN IF char = "\"" THEN "FREE" ELSE "STRING"
    ELSE IF state = "PRE_ELLIPSIS_1"
    THEN IF char = "." THEN "PRE_ELLIPSIS_2" ELSE "FREE"
    ELSE IF state = "PRE_ELLIPSIS_2"
    THEN IF char \in Whitespace THEN "FINAL" ELSE "FREE"
    ELSE IF state = "MINUS"
    THEN IF char = "-" THEN "MINUS" ELSE "FINAL"
    ELSE IF state = "PLUS"
    THEN IF char = "+" THEN "PLUS" ELSE "FINAL"
    ELSE IF state = "TIMES"
    THEN IF char = "*" THEN "TIMES" ELSE "FINAL"
    ELSE "FINAL"

\* where OP_LEAVE_COMMENT and OP_NOT_COMMENT go at a nesting level
AfterComment(level, start_sentence) ==
    IF level # 0 THEN "COMMENT"
    ELSE IF start_sentence THEN "FREE"
    ELSE "LEADING_SPACE"

\* _SentenceEndMatcher.feed: the matcher after the character
Feed(m, char) ==
    LET state_or_op == Transition(m.state, char)
    IN  IF state_or_op = "OP_ENTER_COMMENT"
        THEN [m EXCEPT !.nesting_level = @ + 1, !.state = "COMMENT"]
        ELSE IF state_or_op = "OP_LEAVE_COMMENT"
        THEN [m EXCEPT !.nesting_level = @ - 1,
                       !.state = AfterComment(m.nesting_level - 1,
                                              m.start_sentence)]
        ELSE IF state_or_op = "OP_NOT_COMMENT"
        THEN [m EXCEPT !.state = AfterComment(m.nesting_level,
                                              m.start_sentence)]
        ELSE IF state_or_op = "OP_START_SENTENCE"
        THEN [m EXCEPT !.start_sentence = TRUE, !.state = "FREE"]
        ELSE [m EXCEPT !.state = state_or_op]

\* get_sentence_after feeds the next character of the buffer until feed()
\* returns True
MatcherFeed(char) ==
    /\ matcher.state # "FINAL"
    /\ Len(matcher_chars) < MaxChars
    /\ matcher' = Feed(matcher, char)
    /\ matcher_chars' = Append(matcher_chars, char)
    /\ UNCHANGED <<lowerVars, besidesMatcher>>

NextMatcher == \E char \in BufferChars : MatcherFeed(char)

SpecMatcher == Init /\ [][NextMatcher]_vars

(* ---------------------------- _ActionHandler --------------------------- *)

\* highlight_op of _on_hl_region: matchaddpos, then the match id is stored
\* under the hlid
HighlightOp(ui, hlid) ==
    [ui EXCEPT !.vim = @ \cup {ui.next},
               !.held[hlid] = ui.next,
               !.next = @ + 1]

\* unhighlight_op of _on_unhl_region: self._hl_match_ids[hlid] raises
\* KeyError when the hlid holds no match
UnhighlightOp(ui, hlid) ==
    IF ui.held[hlid] = 0 THEN [ui EXCEPT !.raised = TRUE]
    ELSE [ui EXCEPT !.vim = @ \ {ui.held[hlid]}, !.held[hlid] = 0]

\* "for operation in ops: operation()" over the highlights
RECURSIVE RunHlOps(_, _)
RunHlOps(ui, todo) ==
    IF todo = {} THEN ui
    ELSE LET hlid == CHOOSE h \in todo : \A g \in todo : h <= g
         IN  RunHlOps(HighlightOp(ui, hlid), todo \ {hlid})

\* "for operation in ops: operation()" over the unhighlights, up to the
\* first that raises
RECURSIVE RunOtherOps(_, _)
RunOtherOps(ui, todo) ==
    IF todo = <<>> \/ ui.raised THEN ui
    ELSE RunOtherOps(UnhighlightOp(ui, Head(todo)), Tail(todo))

\* _on_hl_region, for an action HlRegion of the STM
OnHlRegion(hlid) ==
    /\ hlid \notin hl_requested
    /\ vim_next_match + Cardinality(hl_ops) <= MaxVimMatches
    /\ hl_ops' = hl_ops \cup {hlid}
    /\ hl_requested' = hl_requested \cup {hlid}
    /\ ui_updated' = FALSE
    /\ UNCHANGED <<other_ops, hl_match_ids, vim_matches, vim_next_match,
                   lowerVars, besidesActions>>

\* _on_unhl_region, for an action UnhlRegion of the STM
OnUnhlRegion(hlid) ==
    /\ hlid \in hl_requested
    /\ IF hlid \in hl_ops
       THEN hl_ops' = hl_ops \ {hlid} /\ other_ops' = other_ops
       ELSE hl_ops' = hl_ops /\ other_ops' = Append(other_ops, hlid)
    /\ hl_requested' = hl_requested \ {hlid}
    /\ ui_updated' = FALSE
    /\ UNCHANGED <<hl_match_ids, vim_matches, vim_next_match, lowerVars,
                   besidesActions>>

\* _ActionHandler.update_ui
UpdateUi ==
    LET before == [vim |-> vim_matches, held |-> hl_match_ids,
                   next |-> vim_next_match, raised |-> FALSE]
        after == RunOtherOps(RunHlOps(before, hl_ops), other_ops)
    IN  /\ ~ui_updated
        /\ hl_ops' = {}
        /\ other_ops' = <<>>
        /\ vim_matches' = after.vim
        /\ hl_match_ids' = after.held
        /\ vim_next_match' = after.next
        /\ ui_updated' = TRUE
        /\ UNCHANGED <<hl_requested, lowerVars, besidesActions>>

Highlights == \E hlid \in Hlids : OnHlRegion(hlid)

Unhighlights == \E hlid \in Hlids : OnUnhlRegion(hlid)

NextActions == Highlights \/ Unhighlights \/ UpdateUi

SpecActions == Init /\ [][NextActions]_vars

(* ------------------------------ properties ----------------------------- *)

\* nothing can move any more except through a new command of the user
CallerBlocked ==
    \/ cpc \in {"idle", "closed"}
    \/ (cpc = "join" /\ ~WorkerEnded(wpc))

WorkerBlocked ==
    \/ wpc \in {"quit", "dead"}
    \/ (wpc = "get" /\ schedule_queue = <<>>)
    \/ (wpc = "acquire" /\ task_done = 0)

ReaderEnded == rpc \in {"quit", "dead"}

Settled == CallerBlocked /\ WorkerBlocked /\ ReaderEnded

\* C1: tasks are started in the order of their schedule() calls, and a task
\* is started only when every task started before it has called done, so at
\* most one task is between start and done.
C1_FifoOneAtATime ==
    /\ \A i, j \in 1..Len(started) : i < j => started[i] < started[j]
    /\ \A i \in 1..(Len(started) - 1) : done_calls[started[i]] >= 1
    /\ Cardinality({ i \in 1..Len(started) : done_calls[started[i]] = 0 }) <= 1

\* three tasks were started, one of them after a discard dropped another
C1_Witness ==
    /\ Len(started) >= 3
    /\ \E i \in 1..(Len(started) - 1) : started[i + 1] > started[i] + 1

\* C2: the queue of unanswered (cb_res, cb_lost) pairs never holds more than
\* one entry, and every value went to the callback of the request it answers.
C2_OnePendingCall ==
    /\ Len(cb_res_queue) <= 1
    /\ ~misdelivered

\* a second exchange is open after the first was answered
C2_Witness ==
    /\ Len(sent) >= 3
    /\ Len(cb_res_queue) = 1
    /\ done_calls[sent[1].task] = 1

\* C3: a started task calls done exactly once: never twice, and as long as
\* it has not, its exchange is still open (its callbacks wait in the handle).
C3_DoneExactlyOnce ==
    \A i \in 1..Len(started) :
        /\ done_calls[started[i]] <= 1
        /\ done_calls[started[i]] = 0 =>
               \E k \in 1..Len(cb_res_queue) : cb_res_queue[k].task = started[i]

C5_EofWhileBusy ==
    (eof_busy /\ Settled) =>
        /\ conn_lost = 1
        /\ sentences = <<>>
        /\ count = 0

\* C6: the on-lost callback leaves no task queued, no sentence in the history
\* and no entry in the state-id map, drops the highlights of the history and
\* signals connection_lost(); no request is sent after it has returned.
C6_LostCallbackStep ==
    /\ rpc = "discard"
    /\ rcont.kind = "lost"
    /\ conn_lost' = conn_lost + 1

C6_LostCallback ==
    [][ /\ C6_LostCallbackStep =>
            /\ schedule_queue' = <<>>
            /\ pre_discard \subseteq cancelled'
            /\ sentences' = <<>>
            /\ state_id_map' = {}
            /\ \A i \in 1..Len(sentences) : HlId(sentences[i]) \notin highlights'
        /\ lost_cb_done => sent' = sent
      ]_vars

\* C7: when no schedule(), completion or discard is under way, the task count
\* is the number of tasks queued or running, it is not negative, and
\* is_busy() is False exactly when there is no such task.
TasksHeld ==
    Cardinality(QueuedIds(schedule_queue))
    + (IF wpc \in {"acquire", "dead"} THEN 1 ELSE 0)

CountAtRest ==
    /\ cpc \in {"new", "idle"}
    /\ wpc \in {"get", "acquire", "dead"}
    /\ ~(wpc = "acquire" /\ task_done > 0)
    /\ rpc \in {"read", "quit", "dead"}

C7_CountMatchesTasks ==
    CountAtRest =>
        /\ count = TasksHeld
        /\ count >= 0
        /\ IsBusy(count) <=> (TasksHeld > 0)

\* C8: shutdown_join returns once the running task has signalled done (the
\* worker never waits at an empty queue while the caller waits in join), and
\* no task that was pending at shutdown is started afterwards.
C8_ShutdownReturns ==
    /\ cpc = "join" => ~(wpc = "get" /\ schedule_queue = <<>>)
    /\ \A t \in close_pending : t \notin Range(started)

\* C9: a task that was queued when discard_scheduled_tasks() was called is
\* never started once the call has returned, and the task that was running
\* during the call was started and has called done exactly once.
C9_DiscardedNeverStarted ==
    /\ \A t \in cancelled : t \notin Range(started)
    /\ \A t \in discard_runners : t \in Range(started) /\ done_calls[t] = 1

\* a discard that dropped a queued task has returned
C9_Witness ==
    /\ cancelled # {}
    /\ discard_runners # {}

\* C10: a successful Edit_at response makes the stop of the target state the
\* tip stop, removes every later state from the history and from the
\* state-id map and releases its highlight, and leaves no state that stops
\* beyond the target.
C10_RewindStep ==
    /\ rpc = "read"
    /\ cb_res_queue # <<>>
    /\ Head(cb_res_queue).kind \in {"backward", "backward_before_mark"}
    /\ cb_res_queue' = Tail(cb_res_queue)
    /\ rpc' = "read"
    /\ proc' = "running"

C10_RewindToTarget ==
    [][C10_RewindStep =>
        LET index == Head(cb_res_queue).index
            target == IF index = 0 THEN RootMark ELSE sentences[index].stop
        IN  /\ GetLastStop(sentences') = target
            /\ Len(sentences') = index
            /\ \A j \in (index + 1)..Len(sentences) :
                   /\ sentences[j] \notin Range(sentences')
                   /\ sentences[j].state_id \notin state_id_map'
                   /\ HlId(sentences[j]) \notin highlights'
            /\ \A k \in 1..Len(sentences') :
                   ~MarkAfter(sentences'[k].stop, target)
    ]_vars

\* C11: a rewind task whose history holds a state to rewind sends one
\* Edit_at request; the request names, for backward, the state before the
\* tip (the root id when the tip is the first sentence) and, for
\* backward_before_mark(mark), the latest state whose stop is <= mark (the
\* root id when there is none); a command sends no second Edit_at, and on
\* success the named state is the new tip.
StartsRewind ==
    /\ Len(started') = Len(started) + 1
    /\ wtask'.kind \in {"backward", "backward_before_mark"}

SendsEditAt ==
    /\ Len(sent') = Len(sent) + 1
    /\ sent'[Len(sent')].kind = "Edit_at"

NotBeyond(mark) ==
    { i \in 1..Len(sentences) : ~MarkAfter(sentences[i].stop, mark) }

RewindTarget ==
    IF wtask'.kind = "backward"
    THEN IF Len(sentences) = 1 THEN init_state_id
         ELSE sentences[Len(sentences) - 1].state_id
    ELSE IF NotBeyond(wtask'.arg) = {} THEN init_state_id
         ELSE sentences[CHOOSE i \in NotBeyond(wtask'.arg) :
                            \A j \in NotBeyond(wtask'.arg) : j <= i].state_id

HasRewindTarget ==
    IF wtask'.kind = "backward"
    THEN sentences # <<>>
    ELSE NotBeyond(wtask'.arg) # 1..Len(sentences)

C11_EditAtNamesNewTip ==
    [][ /\ (StartsRewind /\ HasRewindTarget /\ ~PollTruthy(proc)) => SendsEditAt
        /\ (StartsRewind /\ SendsEditAt) =>
               /\ sent'[Len(sent')].state_id = RewindTarget
               /\ \A i \in 1..Len(sent) :
                      sent[i].kind = "Edit_at" => sent[i].cmd # wtask'.cmd
        /\ C10_RewindStep =>
               TipStateId(sentences', init_state_id') = Head(out_queue).state_id
      ]_vars

\* C12: a backward task started on a history without sentences sends no
\* request and leaves the history as it is, and the worker goes on: the task
\* signals done, so that the tasks after it are run.
StartsBackwardAtRoot ==
    /\ Len(started') = Len(started) + 1
    /\ wtask'.kind = "backward"
    /\ sentences = <<>>

C12_BackwardAtRootIsNoOp ==
    [][ StartsBackwardAtRoot =>
            /\ sent' = sent
            /\ sentences' = sentences
            /\ wpc' # "dead"
            /\ done_calls'[wtask'.id] = 1
      ]_vars

\* C13: when an Add succeeds with state id i, a state (S, i) with the flag of
\* a sent sentence is appended at the end of the history, the state-id map
\* holds i and i names that state only, and get_last_stop() is S.stop; with
\* no sentence in the history get_last_stop() is Mark(1, 1).
AddSuccessStep ==
    /\ rpc = "read"
    /\ cb_res_queue # <<>>
    /\ Head(cb_res_queue).kind = "forward_one"
    /\ cb_res_queue' = Tail(cb_res_queue)
    /\ rpc' = "read"

C13_AddAppendsState ==
    [][ /\ AddSuccessStep =>
            /\ Len(sentences') = Len(sentences) + 1
            /\ SeqTake(sentences', Len(sentences)) = sentences
            /\ sentences'[Len(sentences')] =
                   [stop |-> Head(cb_res_queue).stop,
                    state_id |-> prover_next_id,
                    flag |-> "CoqStcProcessing", hl |-> TRUE]
            /\ prover_next_id \in state_id_map'
            /\ \A k \in 1..Len(sentences) :
                   sentences'[k].state_id # prover_next_id
            /\ GetLastStop(sentences') = Head(cb_res_queue).stop
        /\ sentences' = <<>> => GetLastStop(sentences') = <<1, 1>>
      ]_vars

\* a second sentence was added after the first
C13_Witness ==
    /\ Len(sentences) >= 2
    /\ sentences[2].state_id \in state_id_map
    /\ sentences[2].stop # sentences[1].stop

\* C14: an Add request carries the state id of the tip at the time it is
\* sent: the id returned by the most recent successful Add whose state is
\* still in the history (the prover's ids grow, so the largest one), or the
\* init state id when the history has no sentence; the k-th Add of a batch
\* whose (k-1)-th Add succeeded carries the id returned for it.
SendsAdd ==
    /\ Len(sent') = Len(sent) + 1
    /\ sent'[Len(sent')].kind = "Add"

NewestStateId ==
    CHOOSE i \in { sentences[k].state_id : k \in 1..Len(sentences) } :
        \A k \in 1..Len(sentences) : sentences[k].state_id <= i

PreviousOfBatchSucceeded ==
    /\ sent # <<>>
    /\ sent[Len(sent)].kind = "Add"
    /\ sent[Len(sent)].cmd = sent'[Len(sent')].cmd
    /\ sent[Len(sent)].pos = sent'[Len(sent')].pos - 1
    /\ <<sent[Len(sent)].cmd, sent[Len(sent)].pos>> \notin failed_adds
    /\ ~lost_cb_done

C14_AddCarriesTip ==
    [][ SendsAdd =>
            /\ sent'[Len(sent')].state_id =
                   IF sentences = <<>> THEN init_state_id ELSE NewestStateId
            /\ PreviousOfBatchSucceeded =>
                   /\ sentences # <<>>
                   /\ sent'[Len(sent')].state_id > sent[Len(sent)].state_id
                   /\ sent'[Len(sent')].state_id =
                          sentences[Len(sentences)].state_id
      ]_vars

\* the second Add of a batch was sent after the first had succeeded
C14_Witness ==
    \E i \in 2..Len(sent) :
        /\ sent[i].kind = "Add" /\ sent[i - 1].kind = "Add"
        /\ sent[i].cmd = sent[i - 1].cmd
        /\ sent[i].pos = 2
        /\ sent[i].state_id > sent[i - 1].state_id

\* C15: once a forward or forward_many batch is over (nothing is queued,
\* running or in flight, and the prover is alive), exactly one Goal request
\* of the command was sent, and it was sent after the Add requests of the
\* batch, whether the Adds succeeded or one of them failed.
Quiescent ==
    /\ cpc = "idle"
    /\ schedule_queue = <<>>
    /\ wpc = "get"
    /\ rpc = "read"
    /\ cb_res_queue = <<>>
    /\ proc = "running"

GoalsOf(cmd) ==
    { j \in 1..Len(sent) : sent[j].kind = "Goal" /\ sent[j].cmd = cmd }

C15_OneGoalAfterBatch ==
    Quiescent =>
        \A i \in 1..Len(sent) :
            sent[i].kind = "Add" =>
                /\ Cardinality(GoalsOf(sent[i].cmd)) = 1
                /\ \A j \in GoalsOf(sent[i].cmd) : j > i

\* C16: while and when a failed Add is handled, the history, its tip, the
\* state-id map and get_last_stop() stay as they are; the failed sentence is
\* kept apart from them (not in the history, its id not in the map) and
\* carries the error flag.
AddFailureHandled ==
    /\ rpc = "discard"
    /\ rcont.kind = "addfail"
    /\ rpc' = "read"

C17_ProcessedKeepsAxiom ==
    [][ /\ CallSetProcessed =>
            IF snt.flag \in {"None", "CoqStcProcessing"}
            THEN /\ snt'.flag = "CoqStcProcessed"
                 /\ hl_group'[snt'.hlid] = "CoqStcProcessed"
            ELSE /\ snt' = snt
                 /\ hl_group' = hl_group
                 /\ hl_released' = hl_released
        /\ axiom_kept' => snt'.flag \in {"CoqStcAxiom", "CoqStcError"}
      ]_vars

\* a sentence that was sent and verified has received an axiom feedback
C17_Witness ==
    /\ axiom_kept
    /\ snt.flag = "CoqStcAxiom"
    /\ hl_group[snt.hlid] = "CoqStcAxiom"
    /\ \E i \in 1..snt.hlcount : hl_group[i] = "CoqStcProcessed"

\* C18: the sentence owns at most one highlight at a time, and every
\* highlight it created is released exactly once: the ones it has replaced
\* or dropped were released once, the one it owns was not released yet.
C18_HighlightReleasedOnce ==
    \A i \in 1..snt.hlcount :
        hl_released[i] = IF i = snt.hlid THEN 0 ELSE 1

\* C19: the history and the state-id map change only in steps of the worker
\* thread (every step of thread_main moves its position wpc); the reader
\* thread and the caller never change them.
C19_OnlyWorkerMutates ==
    [][ (sentences' # sentences \/ state_id_map' # state_id_map) =>
            wpc' # wpc
      ]_vars

\* C20: once the reader has seen EOF, a get_response() call that comes to
\* its end raises CoqtopQuit and returns no response, and no get_response()
\* call waits at an empty queue after the reader thread has ended.
C20_GetResponseRaisesAfterEof ==
    [][ /\ (cg_pc = "check" /\ cg_pc' = "idle" /\ cr_closed) =>
               cg_returned' = "CoqtopQuit"
        /\ ~(cg_pc' = "get" /\ cr_queue' = <<>> /\ cr_pc' = "done")
      ]_vars

\* C21: however the stream is cut into chunks, each loop has emitted the
\* elements 1, 2, ... in stream order, each once; it has emitted no element
\* whose last byte it has not read, once it has read the last byte of an
\* element it has emitted that element and all before it, and it is still
\* running, so that no element that arrives later is dropped.
ElementsReadBy(r) ==
    Len(SelectSeq(SubSeq(xml_stream, 1, chunk_reader[r].pos),
                  LAMBDA b : b.part = "close"))

C21_ElementsOnceInOrder ==
    \A r \in ChunkReaders :
        LET me == chunk_reader[r] IN
        /\ \A i \in 1..Len(me.emitted) : me.emitted[i] = i
        /\ Len(me.emitted) <= ElementsReadBy(r)
        /\ (me.pos > 0 /\ xml_stream[me.pos].part = "close") =>
               Len(me.emitted) = ElementsReadBy(r)
        /\ me.pc = "read"

\* C22: when an element that cannot be decoded arrives, the task of the open
\* exchange signals done, and the reader keeps running or the loss of the
\* connection is signalled, so that later exchanges are answered and no
\* pending task hangs.
C22_UndecodableFailsExchange ==
    [][ RecvUndecodable =>
            /\ TaskRunning => done_calls'[wtask.id] = 1
            /\ rpc' = "read" \/ conn_lost' > conn_lost
      ]_vars

\* C23: when the response to an Edit_at request arrives, either the history
\* is cut to the state the request named or, the request having failed, a
\* new Edit_at request is sent; in both cases the reader thread goes on, so
\* the failure does not end the session.
EditAtAnswered ==
    /\ rpc = "read"
    /\ cb_res_queue # <<>>
    /\ Head(cb_res_queue).kind \in {"backward", "backward_before_mark"}
    /\ cb_res_queue' = Tail(cb_res_queue)

C23_EditAtFailureRetried ==
    [][ EditAtAnswered =>
            /\ \/ Len(sentences') = Head(cb_res_queue).index
               \/ SendsEditAt
            /\ rpc' = "read"
      ]_vars

\* C24: no Add request is sent for a sentence for which the Add request
\* before it was sent too, with nothing but Goal requests between the two:
\* the second of two submissions of the same sentence in a row sends nothing.
C24_DuplicateAddSendsOnce ==
    [][ SendsAdd =>
            \A i \in 1..Len(sent) :
                ~ /\ sent[i].kind = "Add"
                  /\ sent[i].stop = sent'[Len(sent')].stop
                  /\ \A j \in (i + 1)..Len(sent) : sent[j].kind = "Goal"
      ]_vars

\* C25: a forward batch is not taken on while the tip state has the flag
\* error: no task of it is scheduled, so that no Add and no Goal request of
\* it is sent and the history stays as it is.
SubmitsForward ==
    /\ cpc = "idle"
    /\ cpc' = "sched_read"
    /\ Head(ctodo').kind = "forward_one"

\* Sentence.has_error of the tip
TipHasError ==
    /\ sentences # <<>>
    /\ sentences[Len(sentences)].flag = "CoqStcError"

C26_AddFollowsNextStateId ==
    [][ (SendsAdd /\ sentences # <<>> /\ add_next_id # NoId) =>
            sent'[Len(sent')].state_id = add_next_id
      ]_vars

\* C27: a forward command that comes before Init has succeeded (the STM has
\* no init state id) is turned down at once: none of its tasks is scheduled,
\* and no Add request without a state id is sent.
C27_ForwardBeforeInitRefused ==
    [][ /\ SubmitsForward => init_state_id # NoId
        /\ SendsAdd => sent'[Len(sent')].state_id # NoId
      ]_vars

CommandTaken ==
    /\ cpc = "idle"
    /\ cpc' = "sched_read"

C30_BusyRefusesCommand ==
    [][ /\ CommandTaken =>
               /\ QueuedIds(schedule_queue) = {}
               /\ ~TaskRunning
               /\ sent' = sent
               /\ sentences' = sentences
        /\ \A i, j \in 1..Len(schedule_queue') :
               (schedule_queue'[i].id # 0 /\ schedule_queue'[j].id # 0) =>
                   schedule_queue'[i].cmd = schedule_queue'[j].cmd
      ]_vars

\* an operation of view v other than the change of focus
SvOperation(v) ==
    \/ \E m \in MessageValues : SvShowMessage(v, m)
    \/ \E g \in GoalValues : SvSetGoals(v, g)
    \/ SvSetActive(v)

\* C31: an operation of a view that is not focused (show_message, set_goals,
\* set_active) leaves the goals and the messages of the tabpage as they
\* were, and the view itself records the message or the goals it was given
C31_UnfocusedKeepsTabpage ==
    [][\A v \in Bufnrs :
          (~session_view[v].focused /\ SvOperation(v))
          => /\ tabpage_view'.goals = tabpage_view.goals
             /\ tabpage_view'.messages = tabpage_view.messages
             /\ \A m \in MessageValues :
                    SvShowMessage(v, m)
                    => session_view'[v].messages =
                           Append(session_view[v].messages, m)
             /\ \A g \in GoalValues :
                    SvSetGoals(v, g) => session_view'[v].goals = g]_vars

\* C32: when Plugin.focus gives the focus to a view, the tabpage shows the
\* goals of that view (none when it has none) and its messages in order
C32_FocusShowsOwnView ==
    [][\A v \in Bufnrs :
          PluginFocus(v)
          => /\ tabpage_view'.goals = session_view[v].goals
             /\ tabpage_view'.messages = session_view[v].messages]_vars

\* the matches a window has to display: those of the view, where they are now
CurrentMatches == {[match |-> m, line |-> match_arg[m]] : m \in match_map}

\* C33: once draw() has run after the adds, moves and removes, a window the
\* view is active in displays exactly the current matches of the view, and a
\* window it is not active in displays none
C33_DrawShowsCurrentMatches ==
    drawn => \A w \in Winids :
                 win_matches[w] = IF win_executors[w].active
                                  THEN CurrentMatches ELSE {}

\* C34: is_busy() is true exactly while a submitted task has not finished:
\* false before any submit, true from submit() on, and false once the
\* function of every submitted task has returned or raised (the thread is
\* given the step from the return of the function to its own bookkeeping)
C34_BusyUntilFinished ==
    te_pc # "dec" => (TeIsBusy <=> (te_finished < te_submitted))

\* the stops of the buffer after the tip and not after the cursor, in order
RECURSIVE StopsBetween(_, _, _)
StopsBetween(stops, tip_stop, cursor) ==
    IF stops = <<>> THEN <<>>
    ELSE IF MarkAfter(Head(stops), tip_stop) /\ ~MarkAfter(Head(stops), cursor)
    THEN <<Head(stops)>> \o StopsBetween(Tail(stops), tip_stop, cursor)
    ELSE StopsBetween(Tail(stops), tip_stop, cursor)

\* C35: to_cursor with the cursor beyond the tip submits one add of the
\* sentences after the tip that end at or before the cursor, in the order of
\* the buffer, also when the buffer ends before the cursor; with the cursor
\* before the tip it submits one edit_at(cursor)
C35_ToCursorSubmits ==
    LET c == to_cursor_call
    IN  /\ (c # NoCall /\ MarkAfter(c.cursor, c.tip))
           => /\ c.submitted = "add"
              /\ c.arg = StopsBetween(SeqTake(AllStops, c.len), c.tip,
                                      c.cursor)
        /\ (c # NoCall /\ MarkAfter(c.tip, c.cursor))
           => /\ c.submitted = "edit_at"
              /\ c.arg = <<c.cursor>>

\* C36: a value sent through the codec comes back as it was, and a union
\* travels as a union element, in_l for UnionL and in_r for UnionR
C36_CodecRoundTrip ==
    codec_call.called
    => /\ codec_call.decoded = codec_call.value
       /\ codec_call.value.t = "UnionL"
          => (codec_call.xml.tag = "union" /\ codec_call.xml.val = "in_l")
       /\ codec_call.value.t = "UnionR"
          => (codec_call.xml.tag = "union" /\ codec_call.xml.val = "in_r")

\* where a text ends by the rules of Coq: the depth of the (* *) comments
\* open at its end and whether a string is open; "(*" opens a comment outside
\* strings, "*)" closes one, a double quote outside comments opens or
\* closes a string
RECURSIVE LexFrom(_, _)
LexFrom(lex, chars) ==
    IF chars = <<>> THEN lex
    ELSE LET c == Head(chars)
             next ==
                 IF lex.in_string
                 THEN [lex EXCEPT !.in_string = (c # "\""), !.prev = ""]
                 ELSE IF lex.prev = "(" /\ c = "*"
                 THEN [lex EXCEPT !.depth = @ + 1, !.prev = ""]
                 ELSE IF lex.depth > 0 /\ lex.prev = "*" /\ c = ")"
                 THEN [lex EXCEPT !.depth = @ - 1, !.prev = ""]
                 ELSE IF lex.depth = 0 /\ c = "\""
                 THEN [lex EXCEPT !.in_string = TRUE, !.prev = ""]
                 ELSE [lex EXCEPT !.prev = c]
         IN  LexFrom(next, Tail(chars))

LexAtEnd(chars) ==
    LexFrom([depth |-> 0, in_string |-> FALSE, prev |-> ""], chars)

\* C37: when the matcher reaches its final state, the text fed to it before
\* the last character (which ends with the '.', the '...' or the bullet)
\* ends outside every comment and outside every string
C37_NoEndInCommentOrString ==
    matcher.state = "FINAL"
    => LET lex == LexAtEnd(SubSeq(matcher_chars, 1, Len(matcher_chars) - 1))
       IN  lex.depth = 0 /\ ~lex.in_string

\* the state ids of the sentences of the history
HistoryIds == {sentences[i].state_id : i \in 1..Len(sentences)}

C39_MatchesAreRequested ==
    ui_updated
    => /\ {h \in Hlids : hl_match_ids[h] # 0} = hl_requested
       /\ vim_matches = {hl_match_ids[h] : h \in hl_requested}

\* C40: the state-id map holds the state ids of the sentences of the history
\* and no other, and no two sentences of the history have the same state id
C40_MapMatchesHistory ==
    /\ state_id_map = HistoryIds
    /\ \A i, j \in 1..Len(sentences) :
           sentences[i].state_id = sentences[j].state_id => i = j

\* the history holds one sentence and the map its id, after a rewind has
\* taken a sentence that coqtop accepted later out of both
C40_Witness ==
    /\ Len(sentences) = 1
    /\ state_id_map = {sentences[1].state_id}
    /\ sentences[1].state_id < prover_next_id - 1
    /\ \E i \in 1..Len(sent) : sent[i].kind = "Edit_at"
    /\ conn_lost = 0
    /\ cpc # "closed"

====
